---- MODULE Spec2Model ----
(***************************************************************************)
(* Model of the TPG core of top-few-tpg-gegelati: the graph container      *)
(* (TPG::TPGGraph) and the top-3 team evaluation of the execution engine   *)
(* (TPG::TPGExecutionEngine).                                              *)
(*                                                                         *)
(* Vertices and edges are identified by their address, as in the code      *)
(* (every lookup is a pointer comparison).  A freed address may be handed  *)
(* out again by a later allocation, and a caller may pass any address,     *)
(* including one that was freed (a stale reference).                       *)
(***************************************************************************)
EXTENDS Integers, Sequences, FiniteSets, TLC

\* ------------------------------------------------------------------ bounds
MaxVertices == 2
MaxEdges == 2
MaxOut == 4
MaxBid == 5
MaxExecVertices == 3
MaxExecOut == 3
MaxExecBid == 1
ArchiveSize == 2
MaxPrograms == 2
MaxData == 2
MaxRoots == 5
MaxLines == 3
MaxIterations == 3
MaxActionsPerEval == 3

VAddrs == 1..MaxVertices
EAddrs == 1..MaxEdges
NoAddr == 0

VARIABLES
    vertices,   \* TPGGraph::vertices, the registered vertex pointers
    kind,       \* dynamic type of the object at a vertex address
    incoming,   \* TPGVertex::incomingEdges of the object at an address
    outgoing,   \* TPGVertex::outgoingEdges of the object at an address
    edges,      \* TPGGraph::edges, the edge nodes in list order
    edgeSrc,    \* TPGEdge::source of the edge node at an address
    edgeDst,    \* TPGEdge::destination of the edge node at an address
    crashed,    \* the process was aborted by undefined behaviour
    lastOp,     \* the last call made on the graph and how it ended
    snap,       \* the list last returned by getVertices() / getRootVertices()
    teamBids,   \* raw program results of a team's outgoing edges, in list order
    ranks,      \* the vector last returned by evaluateTeam()
    archiveSet, \* TPGExecutionEngine::archive != NULL
    executed,   \* the program executions of the last evaluateTeam(), in order
    recorded,   \* the addRecording calls of the last evaluateTeam(), in order
    exCur,      \* executeFromRoot: currentVertex
    exCurKind,  \* executeFromRoot: dynamic type of currentVertex
    exVisited,  \* executeFromRoot: visitedVertices
    exDsts,     \* destinations of the outgoing edges of the last evaluated team
    exPc,       \* executeFromRoot: "idle", "run", "done", or how it broke
    recordings, \* Archive: the stored recordings, oldest first
    lastAdd,    \* Archive: the last addRecording call and what became of it
    tpg,        \* LearningAgent::tpg, the graph of the population being decimated
    results,    \* the results multimap of decimateWorstRoots, in key order
    params,     \* ratioDeletedRoots and learningEnvironment.getNbActions()
    dec,        \* decimateWorstRoots: its local values and how it ended
    sharedGraph, \* the graph the concurrent evaluations read
    engines,    \* one TPGExecutionEngine per concurrent evaluation
    lines,      \* Program::lines, the lines of a program in order
    lineCall,   \* the last call on the lines of the program and how it ended
    evalRoot    \* evaluateRoot: its parameters, its locals and the environment

graphVars == <<vertices, kind, incoming, outgoing, edges, edgeSrc, edgeDst>>
evalVars == <<teamBids, ranks, archiveSet, executed, recorded>>
execVars == <<exCur, exCurKind, exVisited, exDsts, exPc>>
archVars == <<recordings, lastAdd>>
learnVars == <<tpg, results, params, dec>>
concVars == <<sharedGraph, engines>>
progVars == <<lines, lineCall>>
rootVars == <<evalRoot>>
agentVars == <<learnVars, concVars, progVars, rootVars>>
engineVars == <<evalVars, execVars, archVars, agentVars>>
vars == <<vertices, kind, incoming, outgoing, edges, edgeSrc, edgeDst,
          crashed, lastOp, snap, teamBids, ranks, archiveSet, executed,
          recorded, exCur, exCurKind, exVisited, exDsts, exPc, recordings,
          lastAdd, tpg, results, params, dec, sharedGraph, engines, lines,
          lineCall, evalRoot>>

\* ----------------------------------------------------------- sequence helpers
Range(s) == {s[i] : i \in 1..Len(s)}

\* std::find_if over the edge list by pointer comparison: found or end()
Present(s, x) == \E i \in 1..Len(s) : s[i] = x

\* erase(iterator) of the element found by pointer comparison
Erase(s, x) == SelectSeq(s, LAMBDA y : y # x)

\* std::list::pop_back
PopBack(s) == SubSeq(s, 1, Len(s) - 1)

\* The graph as one value: [vertices, kind, incoming, outgoing, edges, edgeSrc, edgeDst]
G == [vertices |-> vertices, kind |-> kind, incoming |-> incoming,
      outgoing |-> outgoing, edges |-> edges, edgeSrc |-> edgeSrc,
      edgeDst |-> edgeDst]

EmptyGraph ==
    [vertices |-> {},
     kind |-> [a \in VAddrs |-> "none"],
     incoming |-> [a \in VAddrs |-> {}],
     outgoing |-> [a \in VAddrs |-> {}],
     edges |-> <<>>,
     edgeSrc |-> [e \in EAddrs |-> NoAddr],
     edgeDst |-> [e \in EAddrs |-> NoAddr]]

FreeVAddrs(g) == VAddrs \ g.vertices
FreeEAddrs(g) == EAddrs \ Range(g.edges)

\* The address handed out by the next allocation.  Nothing in the code reads
\* an address except to compare it for equality, so the lowest free address
\* stands for any of them; a freed address is handed out again.
Lowest(S) == CHOOSE x \in S : \A y \in S : x <= y
NewVAddr(g) == IF FreeVAddrs(g) = {} THEN {} ELSE {Lowest(FreeVAddrs(g))}
NewEAddr(g) == IF FreeEAddrs(g) = {} THEN {} ELSE {Lowest(FreeEAddrs(g))}

\* ------------------------------------------------------------ graph operations
\* std::find / std::find_if over the vertex collection by pointer comparison.
\* The collection is kept as the set of its pointers: the code reads its
\* order only to copy it.
Registered(g, v) == v \in g.vertices

\* addNewTeam / addNewAction: vertices.push_back(new ...) at address a
AddVertexOp(g, a, k) ==
    [g EXCEPT !.vertices = g.vertices \cup {a},
              !.kind[a] = k,
              !.incoming[a] = {},
              !.outgoing[a] = {}]

\* TPGAction::addOutgoingEdge throws, TPGTeam::addOutgoingEdge inserts
AddOutgoingEdgeThrows(g, v) == g.kind[v] = "Action"

\* addNewEdge with a source check only (the destination lookup forgotten)
AddNewEdgeOp_SrcCheckOnly(g, src, dst, e) ==
    IF ~Registered(g, src)
    THEN [g |-> g, res |-> "threw"]
    ELSE LET g1 == [g EXCEPT !.edges = Append(g.edges, e),
                             !.edgeSrc[e] = src,
                             !.edgeDst[e] = dst]
         IN IF AddOutgoingEdgeThrows(g1, src)
            THEN [g |-> [g1 EXCEPT !.edges = PopBack(g1.edges),
                                   !.edgeSrc[e] = NoAddr,
                                   !.edgeDst[e] = NoAddr],
                  res |-> "threw"]
            ELSE [g |-> [g1 EXCEPT !.outgoing[src] = g1.outgoing[src] \cup {e},
                                   !.incoming[dst] = g1.incoming[dst] \cup {e}],
                  res |-> "ok"]

\* addNewEdge whose catch block re-throws without edges.pop_back()
AddNewEdgeOp_NoPopBack(g, src, dst, e) ==
    IF ~Registered(g, dst) \/ ~Registered(g, src)
    THEN [g |-> g, res |-> "threw"]
    ELSE LET g1 == [g EXCEPT !.edges = Append(g.edges, e),
                             !.edgeSrc[e] = src,
                             !.edgeDst[e] = dst]
         IN IF AddOutgoingEdgeThrows(g1, src)
            THEN [g |-> g1, res |-> "threw"]
            ELSE [g |-> [g1 EXCEPT !.outgoing[src] = g1.outgoing[src] \cup {e},
                                   !.incoming[dst] = g1.incoming[dst] \cup {e}],
                  res |-> "ok"]

\* addNewEdge(src, dest, prog), the new list node being allocated at address e:
\* existence check of both endpoints, emplace_back, addOutgoingEdge on the
\* source (pop_back and re-throw when it throws), addIncomingEdge on the
\* destination.
AddNewEdgeOp(g, src, dst, e) ==
    IF ~Registered(g, dst) \/ ~Registered(g, src)
    THEN [g |-> g, res |-> "threw"]
    ELSE LET g1 == [g EXCEPT !.edges = Append(g.edges, e),
                             !.edgeSrc[e] = src,
                             !.edgeDst[e] = dst]
         IN IF AddOutgoingEdgeThrows(g1, src)
            THEN [g |-> [g1 EXCEPT !.edges = PopBack(g1.edges),
                                   !.edgeSrc[e] = NoAddr,
                                   !.edgeDst[e] = NoAddr],
                  res |-> "threw"]
            ELSE [g |-> [g1 EXCEPT !.outgoing[src] = g1.outgoing[src] \cup {e},
                                   !.incoming[dst] = g1.incoming[dst] \cup {e}],
                  res |-> "ok"]

\* removeEdge that forgets removeIncomingEdge on the destination
RemoveEdgeOp_NoDetachDst(g, e) ==
    IF Present(g.edges, e)
    THEN [g |-> [g EXCEPT !.outgoing[g.edgeSrc[e]] = @ \ {e},
                          !.edges = Erase(g.edges, e),
                          !.edgeSrc[e] = NoAddr,
                          !.edgeDst[e] = NoAddr],
          ub |-> FALSE]
    ELSE [g |-> g, ub |-> TRUE]

\* removeEdge(edge): find_if by address; when found, removeOutgoingEdge on the
\* source and removeIncomingEdge on the destination (findVertex dereferences
\* the result of std::find, undefined when the endpoint is not registered);
\* then edges.erase(iterator), executed also when iterator == end(), which is
\* undefined behaviour (ub).
RemoveEdgeOp(g, e) ==
    IF Present(g.edges, e)
    THEN IF Registered(g, g.edgeSrc[e]) /\ Registered(g, g.edgeDst[e])
         THEN [g |-> [g EXCEPT !.outgoing[g.edgeSrc[e]] = @ \ {e},
                               !.incoming[g.edgeDst[e]] = @ \ {e},
                               !.edges = Erase(g.edges, e),
                               !.edgeSrc[e] = NoAddr,
                               !.edgeDst[e] = NoAddr],
               ub |-> FALSE]
         ELSE [g |-> g, ub |-> TRUE]
    ELSE [g |-> g, ub |-> TRUE]

\* for (auto edge : copiedSet) removeEdge(*edge): std::set<TPGEdge*> iterates
\* in address order; the loop stops at the first undefined call.
RECURSIVE RemoveEdgesOp(_, _)
RemoveEdgesOp(g, S) ==
    IF S = {}
    THEN [g |-> g, ub |-> FALSE]
    ELSE LET e == Lowest(S)
             r == RemoveEdgeOp(g, e)
         IN IF r.ub THEN r ELSE RemoveEdgesOp(r.g, S \ {e})

\* delete *iterator; vertices.erase(iterator)
FreeVertexOp(g, v) ==
    [g EXCEPT !.vertices = g.vertices \ {v},
              !.kind[v] = "none",
              !.incoming[v] = {},
              !.outgoing[v] = {}]

\* removeVertex that removes the incoming edges only
RemoveVertexOp_InEdgesOnly(g, v) ==
    IF Registered(g, v)
    THEN LET r1 == RemoveEdgesOp(g, g.incoming[v])
         IN IF r1.ub THEN r1 ELSE [g |-> FreeVertexOp(r1.g, v), ub |-> FALSE]
    ELSE [g |-> g, ub |-> FALSE]

\* removeVertex that frees the vertex without removing its edges
RemoveVertexOp_KeepEdges(g, v) ==
    IF Registered(g, v)
    THEN [g |-> FreeVertexOp(g, v), ub |-> FALSE]
    ELSE [g |-> g, ub |-> FALSE]

\* removeVertex without the iterator != end() test: removes some registered
\* vertex when the address is not found
RemoveVertexOp_NoFoundTest(g, v) ==
    LET w == IF Registered(g, v) \/ g.vertices = {}
             THEN v ELSE Lowest(g.vertices)
    IN IF Registered(g, w)
       THEN LET r1 == RemoveEdgesOp(g, g.incoming[w])
                r2 == RemoveEdgesOp(r1.g, r1.g.outgoing[w])
            IN IF r1.ub THEN r1
               ELSE IF r2.ub THEN r2
               ELSE [g |-> FreeVertexOp(r2.g, w), ub |-> FALSE]
       ELSE [g |-> g, ub |-> FALSE]

\* removeVertex(vertex): find_if by address; when found, removeEdge on a copy
\* of the incoming set, then on a copy of the outgoing set (taken after the
\* incoming edges are gone), then delete and erase the vertex.
RemoveVertexOp(g, v) ==
    IF Registered(g, v)
    THEN LET r1 == RemoveEdgesOp(g, g.incoming[v])
             r2 == RemoveEdgesOp(r1.g, r1.g.outgoing[v])
         IN IF r1.ub THEN r1
            ELSE IF r2.ub THEN r2
            ELSE [g |-> FreeVertexOp(r2.g, v), ub |-> FALSE]
    ELSE [g |-> g, ub |-> FALSE]

\* getVertices(): a copy of the vertex vector
GetVerticesOp(g) == g.vertices

\* getRootVertices filtering on the outgoing set instead of the incoming set
GetRootVerticesOp_Outgoing(g) == {v \in g.vertices : g.outgoing[v] = {}}

\* getRootVertices(): copy_if over the vertex vector, incoming set empty
GetRootVerticesOp(g) == {v \in g.vertices : g.incoming[v] = {}}

\* ------------------------------------------------------------ team evaluation
\* Program results: a NaN, minus infinity, or a finite value 0..MaxBid.
NaN == -2
NegInf == -1
RawBids == {NaN, NegInf} \cup (0..MaxBid)

\* evaluateEdge replacing a NaN by +inf (the minus sign lost)
EvaluateEdge_NaNAsPosInf(raw) == IF raw = NaN THEN MaxBid + 1 ELSE raw

\* evaluateEdge: execute the program, replace a NaN result by -inf
EvaluateEdge(raw) == IF raw = NaN THEN NegInf ELSE raw

\* The loop body with the first test made against secondBid
EvalStep_FirstTestOnSecond(st, b, i) ==
    LET bid == EvaluateEdge(b[i])
        ex == Append(st.executed, i)
    IN IF bid >= st.secondBid
       THEN [bestEdge |-> i, bestBid |-> bid,
             secondEdge |-> st.bestEdge, secondBid |-> st.bestBid,
             thirdEdge |-> st.secondEdge, thirdBid |-> st.secondBid,
             executed |-> ex]
       ELSE IF bid >= st.thirdBid
       THEN [st EXCEPT !.thirdEdge = i, !.thirdBid = bid, !.executed = ex]
       ELSE [st EXCEPT !.executed = ex]

\* One iteration of the loop of evaluateTeam over the edge at position i of the
\* outgoing list: the bid is compared with >= against bestBid, then secondBid,
\* then thirdBid.
EvalStep(st, b, i) ==
    LET bid == EvaluateEdge(b[i])
        ex == Append(st.executed, i)
    IN IF bid >= st.bestBid
       THEN [bestEdge |-> i, bestBid |-> bid,
             secondEdge |-> st.bestEdge, secondBid |-> st.bestBid,
             thirdEdge |-> st.secondEdge, thirdBid |-> st.secondBid,
             executed |-> ex]
       ELSE IF bid >= st.secondBid
       THEN [st EXCEPT !.thirdEdge = st.secondEdge, !.thirdBid = st.secondBid,
                       !.secondEdge = i, !.secondBid = bid,
                       !.executed = ex]
       ELSE IF bid >= st.thirdBid
       THEN [st EXCEPT !.thirdEdge = i, !.thirdBid = bid, !.executed = ex]
       ELSE [st EXCEPT !.executed = ex]

RECURSIVE EvalLoop(_, _, _)
EvalLoop(st, b, i) ==
    IF i > Len(b) THEN st ELSE EvalLoop(EvalStep(st, b, i), b, i + 1)

\* evaluateTeam on a team whose outgoing edges, in list order, have the raw
\* program results b (edge = position in the list, 1 for *begin()): the three
\* rank holders all start as the first edge, whose program is executed once per
\* rank; the loop runs from the second edge; the result is
\* <<bestEdge, secondEdge, thirdEdge>>.  executed lists the program executions.
EvaluateTeamOp(b) ==
    LET first == [bestEdge |-> 1, bestBid |-> EvaluateEdge(b[1]),
                  secondEdge |-> 1, secondBid |-> EvaluateEdge(b[1]),
                  thirdEdge |-> 1, thirdBid |-> EvaluateEdge(b[1]),
                  executed |-> <<1, 1, 1>>]
        st == EvalLoop(first, b, 2)
    IN [ranks |-> <<st.bestEdge, st.secondEdge, st.thirdEdge>>,
        executed |-> st.executed]

\* Recording only the executions of the edges that end up ranked
RecordingsOp_SelectedOnly(b, sink) ==
    IF sink
    THEN LET r == EvaluateTeamOp(b)
             ex == SelectSeq(r.executed,
                             LAMBDA i : \E k \in 1..3 : r.ranks[k] = i)
         IN [k \in 1..Len(ex) |->
                [prog |-> ex[k], result |-> EvaluateEdge(b[ex[k]])]]
    ELSE <<>>

\* The addRecording calls of one evaluateTeam: evaluateEdge forwards the
\* program (here the position of its edge) and the filtered result of every
\* execution when archive != NULL, and makes no call otherwise.  The data
\* sources are the same for every call of one traversal and are left out.
RecordingsOp(b, sink) ==
    IF sink
    THEN LET ex == EvaluateTeamOp(b).executed
         IN [k \in 1..Len(ex) |->
                [prog |-> ex[k], result |-> EvaluateEdge(b[ex[k]])]]
    ELSE <<>>

\* ------------------------------------------------------------------- actions
NoSnap == [of |-> "none", list |-> {}]

\* A call on the graph: its name, its arguments (addresses), how it ended,
\* whether the address it looks up was found, and the edge count before it.
Call(op, a, b, res, found) ==
    [op |-> op, a |-> a, b |-> b, res |-> res, found |-> found,
     nEdges |-> Len(edges)]

NoAdd == [prog |-> 0, data |-> 0, result |-> 0, accepted |-> FALSE,
          evicted |-> FALSE, called |-> FALSE]

NoOp == [op |-> "init", a |-> NoAddr, b |-> NoAddr, res |-> "ok",
         found |-> FALSE, nEdges |-> 0]

SetGraph(g) ==
    /\ vertices' = g.vertices
    /\ kind' = g.kind
    /\ incoming' = g.incoming
    /\ outgoing' = g.outgoing
    /\ edges' = g.edges
    /\ edgeSrc' = g.edgeSrc
    /\ edgeDst' = g.edgeDst

\* What the caller sees of a call that ran into undefined behaviour.
\* edges.erase(edges.end()) unlinks and frees the sentinel node of the list,
\* which is not a heap block of its own: the allocator aborts the process, or
\* the call returns with every edge node still linked.
UBOutcomes == {"crashed", "ok"}

\* No traversal in progress
ExecIdle ==
    /\ exCur = NoAddr
    /\ exCurKind = "none"
    /\ exVisited = <<>>
    /\ exDsts = <<>>
    /\ exPc = "idle"

\* An archive that is not used
ArchIdle ==
    /\ recordings = <<>>
    /\ lastAdd = NoAdd

\* decimateWorstRoots was not called
NoDec ==
    [pc |-> "idle", total |-> 0, toDelete |-> 0, toKeep |-> 0,
     perClass |-> 0, reserved |-> <<>>, keep |-> <<>>]

\* No decimation in progress
LearnIdle ==
    /\ tpg = EmptyGraph
    /\ results = <<>>
    /\ params = [ratioNum |-> 0, nbActions |-> 0]
    /\ dec = NoDec

\* No concurrent evaluation in progress
ConcIdle ==
    /\ sharedGraph = <<>>
    /\ engines = <<>>

\* removeLine, getLine and addNewLine were not called
NoLineCall == [op |-> "none", idx |-> 0, res |-> "ok", nbLines |-> 0,
               line |-> 0]

\* A program that is not used
ProgIdle ==
    /\ lines = <<>>
    /\ lineCall = NoLineCall

\* evaluateRoot was not called
NoEvalRoot ==
    [pc |-> "idle", nbIterations |-> 0, maxNbActionsPerEval |-> 0, i |-> 0,
     nbActions |-> 0, terminal |-> FALSE, resets |-> 0, doActions |-> 0]

RootIdle == evalRoot = NoEvalRoot

\* A learning agent that is not used
AgentIdle ==
    /\ LearnIdle
    /\ ConcIdle
    /\ ProgIdle
    /\ RootIdle

Init ==
    /\ vertices = EmptyGraph.vertices
    /\ kind = EmptyGraph.kind
    /\ incoming = EmptyGraph.incoming
    /\ outgoing = EmptyGraph.outgoing
    /\ edges = EmptyGraph.edges
    /\ edgeSrc = EmptyGraph.edgeSrc
    /\ edgeDst = EmptyGraph.edgeDst
    /\ crashed = FALSE
    /\ lastOp = NoOp
    /\ snap = NoSnap
    /\ teamBids = <<>>
    /\ ranks = <<>>
    /\ archiveSet = FALSE
    /\ executed = <<>>
    /\ recorded = <<>>
    /\ ExecIdle
    /\ ArchIdle
    /\ AgentIdle

AddNewTeam ==
    /\ ~crashed
    /\ \E a \in NewVAddr(G) :
        /\ SetGraph(AddVertexOp(G, a, "Team"))
        /\ lastOp' = Call("addNewTeam", a, NoAddr, "ok", TRUE)
    /\ UNCHANGED <<crashed, snap, engineVars>>

AddNewAction ==
    /\ ~crashed
    /\ \E a \in NewVAddr(G) :
        /\ SetGraph(AddVertexOp(G, a, "Action"))
        /\ lastOp' = Call("addNewAction", a, NoAddr, "ok", TRUE)
    /\ UNCHANGED <<crashed, snap, engineVars>>

\* addNewEdge(src, dst, prog) with any two addresses; the list node of the new
\* edge is allocated at the next free edge address.
AddNewEdge ==
    /\ ~crashed
    /\ \E src \in VAddrs, dst \in VAddrs, e \in NewEAddr(G) :
        LET r == AddNewEdgeOp(G, src, dst, e)
        IN /\ SetGraph(r.g)
           /\ lastOp' = Call("addNewEdge", src, dst, r.res,
                             Registered(G, src) /\ Registered(G, dst))
    /\ UNCHANGED <<crashed, snap, engineVars>>

RemoveEdge ==
    /\ ~crashed
    /\ \E e \in EAddrs :
        LET r == RemoveEdgeOp(G, e)
        IN IF r.ub
           THEN \E o \in UBOutcomes :
                  /\ SetGraph(r.g)
                  /\ crashed' = (o = "crashed")
                  /\ lastOp' = Call("removeEdge", e, NoAddr, o, Present(edges, e))
           ELSE /\ SetGraph(r.g)
                /\ crashed' = FALSE
                /\ lastOp' = Call("removeEdge", e, NoAddr, "ok", Present(edges, e))
    /\ UNCHANGED <<snap, engineVars>>

RemoveVertex ==
    /\ ~crashed
    /\ \E v \in VAddrs :
        LET r == RemoveVertexOp(G, v)
        IN IF r.ub
           THEN \E o \in UBOutcomes :
                  /\ SetGraph(r.g)
                  /\ crashed' = (o = "crashed")
                  /\ lastOp' = Call("removeVertex", v, NoAddr, o, Registered(G, v))
           ELSE /\ SetGraph(r.g)
                /\ crashed' = FALSE
                /\ lastOp' = Call("removeVertex", v, NoAddr, "ok", Registered(G, v))
    /\ UNCHANGED <<snap, engineVars>>

GetVertices ==
    /\ ~crashed
    /\ snap' = [of |-> "vertices", list |-> GetVerticesOp(G)]
    /\ lastOp' = Call("getVertices", NoAddr, NoAddr, "ok", TRUE)
    /\ UNCHANGED <<graphVars, crashed, engineVars>>

GetRootVertices ==
    /\ ~crashed
    /\ snap' = [of |-> "roots", list |-> GetRootVerticesOp(G)]
    /\ lastOp' = Call("getRootVertices", NoAddr, NoAddr, "ok", TRUE)
    /\ UNCHANGED <<graphVars, crashed, engineVars>>

Next ==
    \/ AddNewTeam
    \/ AddNewAction
    \/ AddNewEdge
    \/ RemoveEdge
    \/ RemoveVertex
    \/ GetVertices
    \/ GetRootVertices

Spec == Init /\ [][Next]_vars

\* The engine is handed a team with 1..MaxOut outgoing edges whose programs
\* return any results; the graph itself is left alone.
TeamInputs == UNION {[1..n -> RawBids] : n \in 1..MaxOut}

InitEval ==
    /\ vertices = EmptyGraph.vertices
    /\ kind = EmptyGraph.kind
    /\ incoming = EmptyGraph.incoming
    /\ outgoing = EmptyGraph.outgoing
    /\ edges = EmptyGraph.edges
    /\ edgeSrc = EmptyGraph.edgeSrc
    /\ edgeDst = EmptyGraph.edgeDst
    /\ crashed = FALSE
    /\ lastOp = NoOp
    /\ snap = NoSnap
    /\ teamBids \in TeamInputs
    /\ ranks = <<>>
    /\ archiveSet \in BOOLEAN
    /\ executed = <<>>
    /\ recorded = <<>>
    /\ ExecIdle
    /\ ArchIdle
    /\ AgentIdle

\* evaluateTeam(team)
EvaluateTeam ==
    /\ ranks = <<>>
    /\ ranks' = EvaluateTeamOp(teamBids).ranks
    /\ executed' = EvaluateTeamOp(teamBids).executed
    /\ recorded' = RecordingsOp(teamBids, archiveSet)
    /\ UNCHANGED <<graphVars, agentVars, crashed, lastOp, snap, teamBids, archiveSet,
                   execVars, archVars>>

NextEval == EvaluateTeam

SpecEval == InitEval /\ [][NextEval]_vars

\* ------------------------------------------------ executeFromRoot: traversal
\* The vertices of the graph being traversed.  The graph is acyclic (the
\* engine assumes it): an edge leads from a vertex to a later one of a
\* topological order 1..MaxExecVertices.
ExecVertices == 1..MaxExecVertices

\* The destinations, in list order, that the n outgoing edges of a Team at
\* vertex v can have in such a graph
TeamDsts(v, n) == [1..n -> (v + 1)..MaxExecVertices]

\* The bids, in list order, that the programs of n outgoing edges can return
TeamBids(n) == [1..n -> 0..MaxExecBid]

\* What evaluateTeam does on a Team with no outgoing edge: it dereferences
\* begin() of an empty list, which is end().  The read pointer is not an edge:
\* evaluateEdge faults on it, or runs on whatever it points to and the call
\* returns three references to no edge of the graph.
EmptyTeamOutcomes == {"crashed", "garbage"}

\* The body of the loop after evaluateTeam, pushing the rank-1 destination
\* first and the rank-3 destination last
ExecuteStepOp_BestFirst(visited, dsts, r) ==
    [visited |-> visited \o <<dsts[r[1]], dsts[r[2]], dsts[r[3]]>>,
     cur |-> dsts[r[1]]]

\* The body of the loop after evaluateTeam, going on from the rank-3
\* destination
ExecuteStepOp_FollowThird(visited, dsts, r) ==
    [visited |-> visited \o <<dsts[r[3]], dsts[r[2]], dsts[r[1]]>>,
     cur |-> dsts[r[3]]]

\* The body of the loop after evaluateTeam: currentVertex becomes the
\* destination of edges.at(2), at(1) and at(0) in turn and is pushed each time
ExecuteStepOp(visited, dsts, r) ==
    [visited |-> visited \o <<dsts[r[3]], dsts[r[2]], dsts[r[1]]>>,
     cur |-> dsts[r[1]]]

\* executeFromRoot(root) was entered: the root is pushed
InitExec ==
    /\ vertices = EmptyGraph.vertices
    /\ kind = EmptyGraph.kind
    /\ incoming = EmptyGraph.incoming
    /\ outgoing = EmptyGraph.outgoing
    /\ edges = EmptyGraph.edges
    /\ edgeSrc = EmptyGraph.edgeSrc
    /\ edgeDst = EmptyGraph.edgeDst
    /\ crashed = FALSE
    /\ lastOp = NoOp
    /\ snap = NoSnap
    /\ teamBids = <<>>
    /\ ranks = <<>>
    /\ archiveSet = FALSE
    /\ executed = <<>>
    /\ recorded = <<>>
    /\ exCur \in ExecVertices
    /\ exCurKind \in {"Team", "Action"}
    /\ exVisited = <<exCur>>
    /\ exDsts = <<>>
    /\ exPc = "run"
    /\ ArchIdle
    /\ AgentIdle

\* The loop test passed (currentVertex is a Team): evaluateTeam(currentVertex)
ExecEvaluateTeam ==
    /\ exPc = "run"
    /\ exCurKind = "Team"
    /\ \E n \in 0..MaxExecOut :
        /\ exDsts' \in TeamDsts(exCur, n)
        /\ teamBids' \in TeamBids(n)
        /\ IF n = 0
           THEN /\ exPc' \in EmptyTeamOutcomes
                /\ ranks' = <<>>
           ELSE /\ exPc' = "evaluated"
                /\ ranks' = EvaluateTeamOp(teamBids').ranks
    /\ UNCHANGED <<graphVars, agentVars, crashed, lastOp, snap, archiveSet, executed,
                   recorded, exCur, exCurKind, exVisited, archVars>>

\* The three destinations are pushed and the loop goes on from the last one
ExecAdvance ==
    /\ exPc = "evaluated"
    /\ exVisited' = ExecuteStepOp(exVisited, exDsts, ranks).visited
    /\ exCur' = ExecuteStepOp(exVisited, exDsts, ranks).cur
    /\ exCurKind' \in {"Team", "Action"}
    /\ exPc' = "run"
    /\ exDsts' = <<>>
    /\ teamBids' = <<>>
    /\ ranks' = <<>>
    /\ UNCHANGED <<graphVars, agentVars, crashed, lastOp, snap, archiveSet, executed,
                   recorded, archVars>>

\* The loop test failed (currentVertex is an Action): return visitedVertices
ExecReturn ==
    /\ exPc = "run"
    /\ exCurKind = "Action"
    /\ exPc' = "done"
    /\ UNCHANGED <<graphVars, agentVars, crashed, lastOp, snap, evalVars, exCur,
                   exCurKind, exVisited, exDsts, archVars>>

NextExec == ExecEvaluateTeam \/ ExecAdvance \/ ExecReturn

SpecExec == InitExec /\ [][NextExec]_vars

\* The loop of executeFromRoot runs on as long as it has a step to take
SpecExecLive == InitExec /\ [][NextExec]_vars /\ WF_vars(NextExec)

\* ------------------------------------------------------------------ archive
\* Program identities and hashes of the data-source snapshots
Programs == 1..MaxPrograms
DataHashes == 0..MaxData

\* The results evaluateEdge forwards: a bid, or -inf for a filtered NaN
Results == {NegInf, 0}

\* The similarity threshold supplied by the application
SimilarityThreshold == 1

\* Two snapshots are near-duplicates when their hashes are within the
\* threshold
Similar(d1, d2) ==
    d1 - d2 <= SimilarityThreshold /\ d2 - d1 <= SimilarityThreshold

\* A stored recording
Recording(p, d, res) == [prog |-> p, data |-> d, result |-> res]

\* The recording has a near-duplicate among the records of the same program
HasSimilar(recs, p, d) ==
    \E k \in 1..Len(recs) : recs[k].prog = p /\ Similar(recs[k].data, d)

\* addRecording with the near-duplicate test made against every record
AddRecordingOp_AnyProgram(recs, p, d, res) ==
    LET app == Append(recs, Recording(p, d, res))
    IN IF \E k \in 1..Len(recs) : Similar(recs[k].data, d)
       THEN [recs |-> recs, accepted |-> FALSE, evicted |-> FALSE]
       ELSE IF Len(app) > ArchiveSize
       THEN [recs |-> Tail(app), accepted |-> TRUE, evicted |-> TRUE]
       ELSE [recs |-> app, accepted |-> TRUE, evicted |-> FALSE]

\* addRecording evicting the newest stored record
AddRecordingOp_EvictNewest(recs, p, d, res) ==
    LET app == Append(recs, Recording(p, d, res))
    IN IF HasSimilar(recs, p, d)
       THEN [recs |-> recs, accepted |-> FALSE, evicted |-> FALSE]
       ELSE IF Len(app) > ArchiveSize
       THEN [recs |-> Append(SubSeq(recs, 1, Len(recs) - 1),
                             Recording(p, d, res)),
             accepted |-> TRUE, evicted |-> TRUE]
       ELSE [recs |-> app, accepted |-> TRUE, evicted |-> FALSE]

\* addRecording appending without evicting
AddRecordingOp_NoEvict(recs, p, d, res) ==
    IF HasSimilar(recs, p, d)
    THEN [recs |-> recs, accepted |-> FALSE, evicted |-> FALSE]
    ELSE [recs |-> Append(recs, Recording(p, d, res)),
          accepted |-> TRUE, evicted |-> FALSE]

\* addRecording: drop a near-duplicate of a record of the same program, else
\* append and, when the size exceeds archiveSize, evict the oldest record
AddRecordingOp(recs, p, d, res) ==
    LET app == Append(recs, Recording(p, d, res))
    IN IF HasSimilar(recs, p, d)
       THEN [recs |-> recs, accepted |-> FALSE, evicted |-> FALSE]
       ELSE IF Len(app) > ArchiveSize
       THEN [recs |-> Tail(app), accepted |-> TRUE, evicted |-> TRUE]
       ELSE [recs |-> app, accepted |-> TRUE, evicted |-> FALSE]

\* The archive after construction with archiveSize
InitArchive ==
    /\ vertices = EmptyGraph.vertices
    /\ kind = EmptyGraph.kind
    /\ incoming = EmptyGraph.incoming
    /\ outgoing = EmptyGraph.outgoing
    /\ edges = EmptyGraph.edges
    /\ edgeSrc = EmptyGraph.edgeSrc
    /\ edgeDst = EmptyGraph.edgeDst
    /\ crashed = FALSE
    /\ lastOp = NoOp
    /\ snap = NoSnap
    /\ teamBids = <<>>
    /\ ranks = <<>>
    /\ archiveSet = TRUE
    /\ executed = <<>>
    /\ recorded = <<>>
    /\ ExecIdle
    /\ ArchIdle
    /\ AgentIdle

\* archive.addRecording(program, dataSources, result)
AddRecording ==
    /\ \E p \in Programs, d \in DataHashes, res \in Results :
        /\ recordings' = AddRecordingOp(recordings, p, d, res).recs
        /\ lastAdd' = [prog |-> p, data |-> d, result |-> res,
                       accepted |-> AddRecordingOp(recordings, p, d, res).accepted,
                       evicted |-> AddRecordingOp(recordings, p, d, res).evicted,
                       called |-> TRUE]
    /\ UNCHANGED <<graphVars, agentVars, crashed, lastOp, snap, evalVars, execVars>>

\* archive.clear()
ClearArchive ==
    /\ recordings' = <<>>
    /\ lastAdd' = NoAdd
    /\ UNCHANGED <<graphVars, agentVars, crashed, lastOp, snap, evalVars, execVars>>

NextArchive == AddRecording \/ ClearArchive

SpecArchive == InitArchive /\ [][NextArchive]_vars

\* ------------------------------------------------ decimateWorstRoots: inputs
\* ratioDeletedRoots is ratioNum / RatioDen, strictly between 0 and 1
RatioDen == 4
RatioNums == 1..(RatioDen - 1)

\* The score of a root for one class
ClassScores == {0, 1, 2}

\* learningEnvironment.getNbActions(), the number of classes
NbActionsValues == {1, 2}

\* Addresses of the population: the scored vertices are 1..MaxRoots, in the
\* order of their entries in the results; every Team has one outgoing edge
\* to the Action at SinkAction; an Action at ExtraRoot has no edge and no
\* entry in the results
PopAddrs == 1..(MaxRoots + 2)
SinkAction == MaxRoots + 1
ExtraRoot == MaxRoots + 2

\* The graph of a population of n scored vertices, the one at actionPos (if
\* any) being an Action, with or without the unscored root Action
Population(n, actionPos, extra) ==
    LET teams == (1..n) \ {actionPos}
        vs == (1..n) \cup {SinkAction} \cup (IF extra THEN {ExtraRoot} ELSE {})
    IN [vertices |-> vs,
        kind |-> [a \in PopAddrs |->
                     IF a \notin vs THEN "none"
                     ELSE IF a \in teams THEN "Team" ELSE "Action"],
        incoming |-> [a \in PopAddrs |-> IF a = SinkAction THEN teams ELSE {}],
        outgoing |-> [a \in PopAddrs |-> IF a \in teams THEN {a} ELSE {}],
        edges |-> SelectSeq([i \in 1..n |-> i], LAMBDA i : i \in teams),
        edgeSrc |-> [e \in 1..MaxRoots |-> IF e \in teams THEN e ELSE NoAddr],
        edgeDst |-> [e \in 1..MaxRoots |->
                        IF e \in teams THEN SinkAction ELSE NoAddr]]

\* The populations of n scored vertices that are decimated: all Teams, with
\* or without the unscored root Action; the worst scored vertex an Action;
\* the best scored vertex an Action
PopulationShapes(n) ==
    {sh \in {[actionPos |-> 0, extra |-> FALSE],
             [actionPos |-> 0, extra |-> TRUE],
             [actionPos |-> 1, extra |-> TRUE],
             [actionPos |-> n, extra |-> FALSE]} : sh.actionPos <= n}

RECURSIVE SumSeq(_)
SumSeq(q) == IF q = <<>> THEN 0 ELSE Head(q) + SumSeq(Tail(q))

\* The general score of a result, by which the results multimap is ordered:
\* the mean of the scores per class, compared here as their sum
GeneralScore(res) == SumSeq(res.cls)

\* A results multimap of n entries of one kind for nbActions classes: the
\* entry at position i scores the vertex at address i
ResultsTables(n, nbActions, k) ==
    {[i \in 1..n |-> [root |-> i, kind |-> k, cls |-> sc[i]]] :
        sc \in {q \in [1..n -> [1..nbActions ->
                                  IF k = "classification"
                                  THEN ClassScores ELSE {0}]] :
                   \A i \in 1..(n - 1) : SumSeq(q[i]) <= SumSeq(q[i + 1])}}

\* ----------------------------------------------- decimateWorstRoots: the code
\* tpg.getNbRootVertices()
TotalNbRoot(g) == Cardinality(GetRootVerticesOp(g))

\* nbRootsToDelete rounded up instead of down
NbRootsToDelete_Ceil(total, ratioNum) ==
    (ratioNum * total + RatioDen - 1) \div RatioDen

\* nbRootsToDelete = floor(ratioDeletedRoots * totalNbRoot)
NbRootsToDelete(total, ratioNum) == (ratioNum * total) \div RatioDen

\* nbRootsKeptPerClass without the division by two
NbRootsKeptPerClass_NoHalf(toKeep, nbActions) == toKeep \div nbActions

\* nbRootsKeptPerClass = (nbRootsToKeep / getNbActions()) / 2
NbRootsKeptPerClass(toKeep, nbActions) == (toKeep \div nbActions) \div 2

\* Position i is before position j in the multimap sortedRoot of class c:
\* ordered by the score for the class, equal scores in insertion order
ClassBefore(tab, c, i, j) ==
    \/ tab[i].cls[c] < tab[j].cls[c]
    \/ tab[i].cls[c] = tab[j].cls[c] /\ i < j

\* sortedRoot for class c, as the positions of the results in its order
SortedRoot(tab, c) ==
    [k \in 1..Len(tab) |->
        CHOOSE i \in 1..Len(tab) :
            Cardinality({j \in 1..Len(tab) : ClassBefore(tab, c, j, i)}) = k - 1]

\* if (std::find(...) == rootsToKeep.end()) rootsToKeep.push_back(root)
PushIfAbsent(keep, v) == IF Present(keep, v) THEN keep ELSE Append(keep, v)

\* The per-class loop skipping a root that is already kept without counting
\* it: the next best roots are scanned until nb roots were added
RECURSIVE KeepBestOfClass_SlotNotConsumed(_, _, _, _, _)
KeepBestOfClass_SlotNotConsumed(keep, tab, sorted, i, nb) ==
    IF nb = 0 \/ i > Len(sorted)
    THEN keep
    ELSE LET v == tab[sorted[Len(sorted) - i + 1]].root
         IN IF Present(keep, v)
            THEN KeepBestOfClass_SlotNotConsumed(keep, tab, sorted, i + 1, nb)
            ELSE KeepBestOfClass_SlotNotConsumed(Append(keep, v), tab, sorted,
                                                 i + 1, nb - 1)

\* The per-class loop started at begin() instead of rbegin()
RECURSIVE KeepBestOfClass_WorstFirst(_, _, _, _, _)
KeepBestOfClass_WorstFirst(keep, tab, sorted, i, nb) ==
    IF i > nb
    THEN keep
    ELSE KeepBestOfClass_WorstFirst(PushIfAbsent(keep, tab[sorted[i]].root),
                                    tab, sorted, i + 1, nb)

\* for (i = 0; i < nbRootsKeptPerClass; i++): the i-th entry of sortedRoot
\* from rbegin() is kept unless it already is; the iterator advances no
\* matter what
RECURSIVE KeepBestOfClass(_, _, _, _, _)
KeepBestOfClass(keep, tab, sorted, i, nb) ==
    IF i > nb
    THEN keep
    ELSE KeepBestOfClass(
             PushIfAbsent(keep, tab[sorted[Len(sorted) - i + 1]].root),
             tab, sorted, i + 1, nb)

\* for (classIdx = 0; classIdx < getNbActions(); classIdx++)
RECURSIVE KeepPerClass(_, _, _, _, _)
KeepPerClass(keep, tab, c, nbActions, perClass) ==
    IF c > nbActions
    THEN keep
    ELSE KeepPerClass(KeepBestOfClass(keep, tab, SortedRoot(tab, c), 1, perClass),
                      tab, c + 1, nbActions, perClass)

\* while (rootsToKeep.size() < nbRootsToKeep && iterator != results.rend())
RECURSIVE KeepGeneral(_, _, _, _)
KeepGeneral(keep, tab, pos, toKeep) ==
    IF Len(keep) >= toKeep \/ pos = 0
    THEN keep
    ELSE KeepGeneral(PushIfAbsent(keep, tab[pos].root), tab, pos - 1, toKeep)

\* The removal loop without the test on the type of the vertex
RECURSIVE RemoveRootsOp_ActionsToo(_, _, _)
RemoveRootsOp_ActionsToo(g, S, keep) ==
    IF S = {}
    THEN [g |-> g, ub |-> FALSE]
    ELSE LET v == Lowest(S)
         IN IF ~Present(keep, v)
            THEN LET r == RemoveVertexOp(g, v)
                 IN IF r.ub THEN r
                    ELSE RemoveRootsOp_ActionsToo(r.g, S \ {v}, keep)
            ELSE RemoveRootsOp_ActionsToo(g, S \ {v}, keep)

\* The removal loop stopping after the first removed root
RECURSIVE RemoveRootsOp_FirstOnly(_, _, _)
RemoveRootsOp_FirstOnly(g, S, keep) ==
    IF S = {}
    THEN [g |-> g, ub |-> FALSE]
    ELSE LET v == Lowest(S)
         IN IF g.kind[v] # "Action" /\ ~Present(keep, v)
            THEN RemoveVertexOp(g, v)
            ELSE RemoveRootsOp_FirstOnly(g, S \ {v}, keep)

\* The removal loop run again on the roots its removals have made
RECURSIVE RemoveRootsOp_Requery(_, _, _)
RemoveRootsOp_Requery(g, S, keep) ==
    IF S = {}
    THEN LET more == {v \in GetRootVerticesOp(g) :
                         g.kind[v] # "Action" /\ ~Present(keep, v)}
         IN IF more = {}
            THEN [g |-> g, ub |-> FALSE]
            ELSE RemoveRootsOp_Requery(g, more, keep)
    ELSE LET v == Lowest(S)
         IN IF g.kind[v] # "Action" /\ ~Present(keep, v)
            THEN LET r == RemoveVertexOp(g, v)
                 IN IF r.ub THEN r
                    ELSE RemoveRootsOp_Requery(r.g, S \ {v}, keep)
            ELSE RemoveRootsOp_Requery(g, S \ {v}, keep)

\* std::for_each over allRoots: removeVertex on every root that is not an
\* Action and is not in rootsToKeep
RECURSIVE RemoveRootsOp(_, _, _)
RemoveRootsOp(g, S, keep) ==
    IF S = {}
    THEN [g |-> g, ub |-> FALSE]
    ELSE LET v == Lowest(S)
         IN IF g.kind[v] # "Action" /\ ~Present(keep, v)
            THEN LET r == RemoveVertexOp(g, v)
                 IN IF r.ub THEN r ELSE RemoveRootsOp(r.g, S \ {v}, keep)
            ELSE RemoveRootsOp(g, S \ {v}, keep)

\* decimateWorstRoots without the test on the type of the results
DecimateWorstRootsOp_NoTypeCheck(g, tab, nbActions, ratioNum) ==
    LET total == TotalNbRoot(g)
        toDelete == NbRootsToDelete(total, ratioNum)
        toKeep == total - toDelete
        perClass == NbRootsKeptPerClass(toKeep, nbActions)
    IN IF tab = <<>> \/ perClass > Len(tab)
       THEN [g |-> g, ub |-> TRUE, dec |-> NoDec]
       ELSE LET reserved == KeepPerClass(<<>>, tab, 1, nbActions, perClass)
                keep == KeepGeneral(reserved, tab, Len(tab), toKeep)
                r == RemoveRootsOp(g, GetRootVerticesOp(g), keep)
            IN [g |-> r.g, ub |-> r.ub,
                dec |-> [pc |-> "done", total |-> total,
                         toDelete |-> toDelete, toKeep |-> toKeep,
                         perClass |-> perClass, reserved |-> reserved,
                         keep |-> keep]]

\* decimateWorstRoots(results).  ub: results.begin() of an empty multimap is
\* dereferenced, or the per-class loop runs sortedRoot.rbegin() past rend().
DecimateWorstRootsOp(g, tab, nbActions, ratioNum) ==
    LET total == TotalNbRoot(g)
        toDelete == NbRootsToDelete(total, ratioNum)
        toKeep == total - toDelete
        perClass == NbRootsKeptPerClass(toKeep, nbActions)
    IN IF tab = <<>>
       THEN [g |-> g, ub |-> TRUE, dec |-> NoDec]
       ELSE IF tab[1].kind # "classification"
       THEN [g |-> g, ub |-> FALSE, dec |-> [NoDec EXCEPT !.pc = "threw"]]
       ELSE IF perClass > Len(tab)
       THEN [g |-> g, ub |-> TRUE, dec |-> NoDec]
       ELSE LET reserved == KeepPerClass(<<>>, tab, 1, nbActions, perClass)
                keep == KeepGeneral(reserved, tab, Len(tab), toKeep)
                r == RemoveRootsOp(g, GetRootVerticesOp(g), keep)
            IN [g |-> r.g, ub |-> r.ub,
                dec |-> [pc |-> "done", total |-> total,
                         toDelete |-> toDelete, toKeep |-> toKeep,
                         perClass |-> perClass, reserved |-> reserved,
                         keep |-> keep]]

\* What the caller sees of a decimateWorstRoots that ran into undefined
\* behaviour before any removal: typeid applied through the pointer read
\* past the end throws std::bad_typeid when that pointer is null, and the
\* process faults otherwise.
DecimateUBOutcomes == {"threw", "crashed"}

\* ---------------------------------------------- decimateWorstRoots: actions
\* A learning agent holding a population and the results of its evaluation
InitDecimate ==
    /\ vertices = EmptyGraph.vertices
    /\ kind = EmptyGraph.kind
    /\ incoming = EmptyGraph.incoming
    /\ outgoing = EmptyGraph.outgoing
    /\ edges = EmptyGraph.edges
    /\ edgeSrc = EmptyGraph.edgeSrc
    /\ edgeDst = EmptyGraph.edgeDst
    /\ crashed = FALSE
    /\ lastOp = NoOp
    /\ snap = NoSnap
    /\ teamBids = <<>>
    /\ ranks = <<>>
    /\ archiveSet = FALSE
    /\ executed = <<>>
    /\ recorded = <<>>
    /\ ExecIdle
    /\ ArchIdle
    /\ \E n \in 0..MaxRoots, nbActions \in NbActionsValues :
         /\ \E k \in {"classification", "other"} :
               results \in ResultsTables(n, nbActions, k)
         /\ \E ratioNum \in RatioNums :
               params = [ratioNum |-> ratioNum, nbActions |-> nbActions]
         /\ \E shape \in PopulationShapes(n) :
               tpg = Population(n, shape.actionPos, shape.extra)
    /\ dec = NoDec
    /\ ConcIdle
    /\ ProgIdle
    /\ RootIdle

\* decimateWorstRoots(results)
DecimateWorstRoots ==
    /\ dec.pc = "idle"
    /\ LET r == DecimateWorstRootsOp(tpg, results, params.nbActions,
                                     params.ratioNum)
       IN IF r.ub
          THEN /\ tpg' = tpg
               /\ \E o \in DecimateUBOutcomes : dec' = [NoDec EXCEPT !.pc = o]
          ELSE /\ tpg' = r.g
               /\ dec' = r.dec
    /\ UNCHANGED <<graphVars, crashed, lastOp, snap, evalVars, execVars,
                   archVars, results, params, concVars, progVars, rootVars>>

NextDecimate == DecimateWorstRoots

SpecDecimate == InitDecimate /\ [][NextDecimate]_vars

\* ------------------------------- decimateWorstRoots: a Team below the roots
\* A Team that is not a root: the first roots of the population point to it
InnerTeam == MaxRoots + 3
NestedAddrs == 1..(MaxRoots + 3)

\* The graph of a population of n scored root Teams of which the first k have
\* their edge to the inner Team and the others to the Action; the inner Team
\* has one edge to the Action
NestedPopulation(n, k) ==
    LET teams == (1..n) \cup {InnerTeam}
        vs == teams \cup {SinkAction}
    IN [vertices |-> vs,
        kind |-> [a \in NestedAddrs |->
                     IF a \notin vs THEN "none"
                     ELSE IF a \in teams THEN "Team" ELSE "Action"],
        incoming |-> [a \in NestedAddrs |->
                         IF a = InnerTeam THEN 1..k
                         ELSE IF a = SinkAction
                         THEN ((k + 1)..n) \cup {InnerTeam}
                         ELSE {}],
        outgoing |-> [a \in NestedAddrs |-> IF a \in teams THEN {a} ELSE {}],
        edges |-> [i \in 1..(n + 1) |-> IF i <= n THEN i ELSE InnerTeam],
        edgeSrc |-> [e \in NestedAddrs |-> IF e \in teams THEN e ELSE NoAddr],
        edgeDst |-> [e \in NestedAddrs |->
                        IF e \in 1..k THEN InnerTeam
                        ELSE IF e \in teams THEN SinkAction ELSE NoAddr]]

\* A learning agent holding such a population and the classification results
\* of its roots
InitDecimateNested ==
    /\ vertices = EmptyGraph.vertices
    /\ kind = EmptyGraph.kind
    /\ incoming = EmptyGraph.incoming
    /\ outgoing = EmptyGraph.outgoing
    /\ edges = EmptyGraph.edges
    /\ edgeSrc = EmptyGraph.edgeSrc
    /\ edgeDst = EmptyGraph.edgeDst
    /\ crashed = FALSE
    /\ lastOp = NoOp
    /\ snap = NoSnap
    /\ teamBids = <<>>
    /\ ranks = <<>>
    /\ archiveSet = FALSE
    /\ executed = <<>>
    /\ recorded = <<>>
    /\ ExecIdle
    /\ ArchIdle
    /\ \E n \in 1..MaxRoots, nbActions \in NbActionsValues :
         /\ results \in ResultsTables(n, nbActions, "classification")
         /\ \E ratioNum \in RatioNums :
               params = [ratioNum |-> ratioNum, nbActions |-> nbActions]
         /\ \E k \in 1..n : tpg = NestedPopulation(n, k)
    /\ dec = NoDec
    /\ ConcIdle
    /\ ProgIdle
    /\ RootIdle

SpecDecimateNested == InitDecimateNested /\ [][NextDecimate]_vars

\* ------------------------------------------- concurrent evaluation of roots
\* The graph read by the concurrent evaluations: an acyclic graph whose Teams
\* each have one or two outgoing edges towards later vertices, and whose last
\* vertex is an Action.
ConcTeams == {1, 2}
ConcVertices == ConcTeams \cup {Cardinality(ConcTeams) + 1}
ConcPrograms == {1, 2}
ConcOutDegrees == {1, 2}

\* One evaluation per engine
Workers == {1, 2}

\* The outgoing edges, in list order, a Team at vertex v can have
ConcOutEdges(v) ==
    UNION {[1..n -> [dst : {d \in ConcVertices : d > v},
                     program : ConcPrograms]] : n \in ConcOutDegrees}

\* The graphs: the outgoing edge list of every Team
SharedGraphs ==
    {g \in [ConcTeams -> UNION {ConcOutEdges(v) : v \in ConcTeams}] :
        \A v \in ConcTeams : g[v] \in ConcOutEdges(v)}

\* dynamic_cast<const TPGTeam*>(v) succeeds
IsTeam(v) == v \in ConcTeams

\* executeProgram(): the result of a program on data sources that do not
\* change during the evaluations depends on the program only
ProgramResult(p) == p - 1

\* The data sources are the same for every recording
ConcData == 0

\* Every engine running the programs on the progExecutionEngine of the first
ProgEngineOf_Shared(w) == CHOOSE e \in Workers : \A o \in Workers : e <= o

\* this->progExecutionEngine: each engine has its own
ProgEngineOf(w) == w

\* The edge evaluated by the k-th evaluateEdge call of evaluateTeam: the first
\* edge for bestBid, secondBid and thirdBid, then the edges from the second on
CallEdge(k) == IF k <= 3 THEN 1 ELSE k - 2

\* The ranks evaluateTeam returns from the raw results r of its evaluateEdge
\* calls, in call order
EvaluateTeamFrom(r) ==
    LET first == [bestEdge |-> 1, bestBid |-> EvaluateEdge(r[1]),
                  secondEdge |-> 1, secondBid |-> EvaluateEdge(r[2]),
                  thirdEdge |-> 1, thirdBid |-> EvaluateEdge(r[3]),
                  executed |-> <<1, 1, 1>>]
        b == [i \in 1..(Len(r) - 2) |-> r[i + 2]]
        st == EvalLoop(first, b, 2)
    IN <<st.bestEdge, st.secondEdge, st.thirdEdge>>

\* executeFromRoot(root) run alone on graph g, from vertex v with the vertices
\* visited so far
RECURSIVE ExecuteFromRootOp(_, _, _)
ExecuteFromRootOp(g, v, visited) ==
    IF ~IsTeam(v)
    THEN visited
    ELSE LET b == [i \in 1..Len(g[v]) |-> ProgramResult(g[v][i].program)]
             dsts == [i \in 1..Len(g[v]) |-> g[v][i].dst]
             s == ExecuteStepOp(visited, dsts, EvaluateTeamOp(b).ranks)
         IN ExecuteFromRootOp(g, s.cur, s.visited)

\* An engine entering executeFromRoot(root)
EngineAt(root) ==
    [root |-> root, currentVertex |-> root, visitedVertices |-> <<root>>,
     pc |-> "loop", call |-> 0, program |-> 0, result |-> 0, bids |-> <<>>]

\* Every engine has entered executeFromRoot on a vertex of the graph
InitConc ==
    /\ vertices = EmptyGraph.vertices
    /\ kind = EmptyGraph.kind
    /\ incoming = EmptyGraph.incoming
    /\ outgoing = EmptyGraph.outgoing
    /\ edges = EmptyGraph.edges
    /\ edgeSrc = EmptyGraph.edgeSrc
    /\ edgeDst = EmptyGraph.edgeDst
    /\ crashed = FALSE
    /\ lastOp = NoOp
    /\ snap = NoSnap
    /\ teamBids = <<>>
    /\ ranks = <<>>
    /\ archiveSet = TRUE
    /\ executed = <<>>
    /\ recorded = <<>>
    /\ ExecIdle
    /\ ArchIdle
    /\ LearnIdle
    /\ ProgIdle
    /\ RootIdle
    /\ sharedGraph \in SharedGraphs
    /\ \E roots \in [Workers -> ConcTeams] :
          engines = [w \in Workers |-> EngineAt(roots[w])]

\* The edge the engine of w is evaluating
CurrentEdge(w) ==
    sharedGraph[engines[w].currentVertex][CallEdge(engines[w].call)]

\* while (dynamic_cast<const TPGTeam*>(currentVertex)): evaluateTeam is
\* entered, or visitedVertices is returned
ConcLoopTest ==
    /\ \E w \in Workers :
        /\ engines[w].pc = "loop"
        /\ engines' =
             IF IsTeam(engines[w].currentVertex)
             THEN [engines EXCEPT ![w].pc = "setProgram", ![w].call = 1,
                                  ![w].bids = <<>>]
             ELSE [engines EXCEPT ![w].pc = "done"]
    /\ UNCHANGED <<graphVars, learnVars, progVars, rootVars, sharedGraph, crashed,
                   lastOp, snap, evalVars, execVars, archVars>>

\* evaluateEdge: progExecutionEngine.setProgram(prog)
ConcSetProgram ==
    /\ \E w \in Workers :
        /\ engines[w].pc = "setProgram"
        /\ LET set == [engines EXCEPT ![ProgEngineOf(w)].program =
                                          CurrentEdge(w).program]
           IN engines' = [set EXCEPT ![w].pc = "execute"]
    /\ UNCHANGED <<graphVars, learnVars, progVars, rootVars, sharedGraph, crashed,
                   lastOp, snap, evalVars, execVars, archVars>>

\* evaluateEdge: result = progExecutionEngine.executeProgram()
ConcExecuteProgram ==
    /\ \E w \in Workers :
        /\ engines[w].pc = "execute"
        /\ engines' =
             [engines EXCEPT
                ![w].result = ProgramResult(engines[ProgEngineOf(w)].program),
                ![w].pc = "record"]
    /\ UNCHANGED <<graphVars, learnVars, progVars, rootVars, sharedGraph, crashed,
                   lastOp, snap, evalVars, execVars, archVars>>

\* evaluateEdge: the NaN filter, archive->addRecording (one insertion at a
\* time) and the return to evaluateTeam, which goes on with its next edge or
\* returns the three ranked edges
ConcAddRecording ==
    /\ \E w \in Workers :
        /\ engines[w].pc = "record"
        /\ LET add == AddRecordingOp(recordings, CurrentEdge(w).program,
                                     ConcData, EvaluateEdge(engines[w].result))
               n == Len(sharedGraph[engines[w].currentVertex])
           IN /\ recordings' = add.recs
              /\ lastAdd' = [prog |-> CurrentEdge(w).program,
                             data |-> ConcData,
                             result |-> EvaluateEdge(engines[w].result),
                             accepted |-> add.accepted,
                             evicted |-> add.evicted, called |-> TRUE]
              /\ engines' =
                   [engines EXCEPT
                      ![w].bids = Append(@, engines[w].result),
                      ![w].call = IF @ = n + 2 THEN 0 ELSE @ + 1,
                      ![w].pc = IF engines[w].call = n + 2
                                THEN "advance" ELSE "setProgram"]
    /\ UNCHANGED <<graphVars, learnVars, progVars, rootVars, sharedGraph, crashed,
                   lastOp, snap, evalVars, execVars>>

\* The body of the loop after evaluateTeam
ConcAdvance ==
    /\ \E w \in Workers :
        /\ engines[w].pc = "advance"
        /\ LET v == engines[w].currentVertex
               dsts == [i \in 1..Len(sharedGraph[v]) |-> sharedGraph[v][i].dst]
               s == ExecuteStepOp(engines[w].visitedVertices, dsts,
                                  EvaluateTeamFrom(engines[w].bids))
           IN engines' = [engines EXCEPT ![w].currentVertex = s.cur,
                                         ![w].visitedVertices = s.visited,
                                         ![w].bids = <<>>,
                                         ![w].pc = "loop"]
    /\ UNCHANGED <<graphVars, learnVars, progVars, rootVars, sharedGraph, crashed,
                   lastOp, snap, evalVars, execVars, archVars>>

NextConc ==
    \/ ConcLoopTest
    \/ ConcSetProgram
    \/ ConcExecuteProgram
    \/ ConcAddRecording
    \/ ConcAdvance

SpecConc == InitConc /\ [][NextConc]_vars

\* ------------------------------------------------------- lines of a Program
\* The Line objects a program can hold, and the indexes passed to its calls
LineAddrs == 1..MaxLines
LineIndexes == 0..(MaxLines + 1)

\* new Line(environment): an address that no line of the program has
NewLine(ls) ==
    CHOOSE l \in LineAddrs :
        /\ l \notin Range(ls)
        /\ \A o \in LineAddrs : o \notin Range(ls) => l <= o

\* lines.insert(lines.begin() + idx, line)
InsertAt(ls, idx, l) ==
    SubSeq(ls, 1, idx) \o <<l>> \o SubSeq(ls, idx + 1, Len(ls))

\* lines.erase(lines.begin() + idx)
EraseAt(ls, idx) == SubSeq(ls, 1, idx) \o SubSeq(ls, idx + 2, Len(ls))

\* addNewLine(idx): std::out_of_range beyond the end of the program, else a
\* new line is inserted at idx and returned
AddNewLineOp(ls, idx) ==
    IF idx > Len(ls)
    THEN [lines |-> ls, res |-> "out_of_range", line |-> 0]
    ELSE [lines |-> InsertAt(ls, idx, NewLine(ls)), res |-> "ok",
          line |-> NewLine(ls)]

\* getLine(index): std::out_of_range outside of the program, else the line
GetLineOp(ls, index) ==
    IF index >= Len(ls)
    THEN [lines |-> ls, res |-> "out_of_range", line |-> 0]
    ELSE [lines |-> ls, res |-> "ok", line |-> ls[index + 1]]

\* removeLine accepting the index one past the last line
RemoveLineOp_OnePastEnd(ls, idx) ==
    IF idx > Len(ls)
    THEN [lines |-> ls, res |-> "out_of_range", line |-> 0]
    ELSE [lines |-> EraseAt(ls, idx), res |-> "ok", line |-> 0]

\* removeLine(idx): std::out_of_range outside of the program, else the line is
\* deleted and erased from the lines
RemoveLineOp(ls, idx) ==
    IF idx >= Len(ls)
    THEN [lines |-> ls, res |-> "out_of_range", line |-> 0]
    ELSE [lines |-> EraseAt(ls, idx), res |-> "ok", line |-> 0]

\* A call on the lines: its name, its index, how it ended, getNbLines()
\* before it and the line it returned
LineCall(op, idx, r) ==
    [op |-> op, idx |-> idx, res |-> r.res, nbLines |-> Len(lines),
     line |-> r.line]

\* Program p(environment): no line
InitProgram ==
    /\ vertices = EmptyGraph.vertices
    /\ kind = EmptyGraph.kind
    /\ incoming = EmptyGraph.incoming
    /\ outgoing = EmptyGraph.outgoing
    /\ edges = EmptyGraph.edges
    /\ edgeSrc = EmptyGraph.edgeSrc
    /\ edgeDst = EmptyGraph.edgeDst
    /\ crashed = FALSE
    /\ lastOp = NoOp
    /\ snap = NoSnap
    /\ teamBids = <<>>
    /\ ranks = <<>>
    /\ archiveSet = FALSE
    /\ executed = <<>>
    /\ recorded = <<>>
    /\ ExecIdle
    /\ ArchIdle
    /\ LearnIdle
    /\ ConcIdle
    /\ ProgIdle
    /\ RootIdle

\* p.addNewLine(idx); p.addNewLine() is p.addNewLine(p.getNbLines())
AddNewLine ==
    /\ \E idx \in LineIndexes :
        /\ Len(lines) < MaxLines \/ idx > Len(lines)
        /\ lines' = AddNewLineOp(lines, idx).lines
        /\ lineCall' = LineCall("addNewLine", idx, AddNewLineOp(lines, idx))
    /\ UNCHANGED <<graphVars, learnVars, concVars, rootVars, crashed, lastOp,
                   snap,
                   evalVars, execVars, archVars>>

\* p.getLine(index)
GetLine ==
    /\ \E index \in LineIndexes :
        /\ lines' = GetLineOp(lines, index).lines
        /\ lineCall' = LineCall("getLine", index, GetLineOp(lines, index))
    /\ UNCHANGED <<graphVars, learnVars, concVars, rootVars, crashed, lastOp,
                   snap,
                   evalVars, execVars, archVars>>

\* p.removeLine(idx)
RemoveLine ==
    /\ \E idx \in LineIndexes :
        /\ lines' = RemoveLineOp(lines, idx).lines
        /\ lineCall' = LineCall("removeLine", idx, RemoveLineOp(lines, idx))
    /\ UNCHANGED <<graphVars, learnVars, concVars, rootVars, crashed, lastOp,
                   snap,
                   evalVars, execVars, archVars>>

NextProgram == AddNewLine \/ GetLine \/ RemoveLine

SpecProgram == InitProgram /\ [][NextProgram]_vars

\* ------------------------------------------------------------- evaluateRoot
\* The loop test of the while: nbActions <= maxNbActionsPerEval
BudgetLeft_OneMore(nbActions, max) == nbActions <= max

\* The loop test of the while: nbActions < maxNbActionsPerEval
BudgetLeft(nbActions, max) == nbActions < max

\* evaluateRoot(tee, root, generationNumber, mode, le) was entered with the
\* parameters of the agent.  i is an int compared with a uint64_t; the
\* iteration counts modelled are far below the largest int.
InitEvalRoot ==
    /\ vertices = EmptyGraph.vertices
    /\ kind = EmptyGraph.kind
    /\ incoming = EmptyGraph.incoming
    /\ outgoing = EmptyGraph.outgoing
    /\ edges = EmptyGraph.edges
    /\ edgeSrc = EmptyGraph.edgeSrc
    /\ edgeDst = EmptyGraph.edgeDst
    /\ crashed = FALSE
    /\ lastOp = NoOp
    /\ snap = NoSnap
    /\ teamBids = <<>>
    /\ ranks = <<>>
    /\ archiveSet = FALSE
    /\ executed = <<>>
    /\ recorded = <<>>
    /\ ExecIdle
    /\ ArchIdle
    /\ LearnIdle
    /\ ConcIdle
    /\ ProgIdle
    /\ \E n \in 0..MaxIterations, max \in 0..MaxActionsPerEval :
          evalRoot = [NoEvalRoot EXCEPT !.pc = "for", !.nbIterations = n,
                                        !.maxNbActionsPerEval = max]

\* The for test passed: le.reset(hash, mode), nbActions = 0.  The environment
\* may be terminal as soon as it is reset.
EvalRootReset ==
    /\ evalRoot.pc = "for"
    /\ evalRoot.i < evalRoot.nbIterations
    /\ evalRoot' \in {[evalRoot EXCEPT !.pc = "while", !.nbActions = 0,
                                       !.doActions = 0,
                                       !.resets = @ + 1,
                                       !.terminal = t] : t \in BOOLEAN}
    /\ UNCHANGED <<graphVars, learnVars, concVars, progVars, crashed, lastOp,
                   snap, evalVars, execVars, archVars>>

\* The while test passed: executeFromRoot(root), le.doAction(actionID),
\* nbActions++.  The action may or may not end the episode.
EvalRootDoAction ==
    /\ evalRoot.pc = "while"
    /\ ~evalRoot.terminal
    /\ BudgetLeft(evalRoot.nbActions, evalRoot.maxNbActionsPerEval)
    /\ evalRoot' \in {[evalRoot EXCEPT !.nbActions = @ + 1,
                                       !.doActions = @ + 1,
                                       !.terminal = t] : t \in BOOLEAN}
    /\ UNCHANGED <<graphVars, learnVars, concVars, progVars, crashed, lastOp,
                   snap, evalVars, execVars, archVars>>

\* The while test failed: the scores of the iteration are added to the
\* result and i++
EvalRootEndIteration ==
    /\ evalRoot.pc = "while"
    /\ ~(~evalRoot.terminal
           /\ BudgetLeft(evalRoot.nbActions, evalRoot.maxNbActionsPerEval))
    /\ evalRoot' = [evalRoot EXCEPT !.pc = "for", !.i = @ + 1]
    /\ UNCHANGED <<graphVars, learnVars, concVars, progVars, crashed, lastOp,
                   snap, evalVars, execVars, archVars>>

\* The for test failed: the result is divided and returned
EvalRootReturn ==
    /\ evalRoot.pc = "for"
    /\ ~(evalRoot.i < evalRoot.nbIterations)
    /\ evalRoot' = [evalRoot EXCEPT !.pc = "done"]
    /\ UNCHANGED <<graphVars, learnVars, concVars, progVars, crashed, lastOp,
                   snap, evalVars, execVars, archVars>>

NextEvalRoot ==
    \/ EvalRootReset
    \/ EvalRootDoAction
    \/ EvalRootEndIteration
    \/ EvalRootReturn

\* The thread that runs evaluateRoot goes on as long as it has a step to take
SpecEvalRoot ==
    InitEvalRoot /\ [][NextEvalRoot]_vars /\ WF_vars(NextEvalRoot)

\* ------------------------------------------------------------------- claims
EdgeSet == Range(edges)

\* C1: every edge of the edge collection has a source vertex and a
\* destination vertex that are both registered in the vertex collection,
\* after any sequence of calls (failed addNewEdge calls included).
C1_NoDanglingEdges ==
    \A e \in EdgeSet : edgeSrc[e] \in vertices /\ edgeDst[e] \in vertices

\* C1 witness: a registered vertex has been removed by removeVertex, an
\* addNewEdge has since been recorded, and an edge is still in the collection.
C1_Witness ==
    /\ lastOp.op = "removeVertex" /\ lastOp.found /\ lastOp.res = "ok"
    /\ lastOp.nEdges > Len(edges)
    /\ edges # <<>>

\* C2: an edge e is in the outgoing set of s and in the incoming set of d
\* exactly when e is in the edge collection with source s and destination d:
\* no incidence set holds an edge that is not in the collection, and no edge
\* of the collection is missing from the sets of its endpoints.
C2_IncidenceMatchesEdges ==
    \A e \in EAddrs : \A v \in VAddrs :
        /\ e \in outgoing[v] <=> (e \in EdgeSet /\ edgeSrc[e] = v)
        /\ e \in incoming[v] <=> (e \in EdgeSet /\ edgeDst[e] = v)

\* C2 witness: removeEdge has removed an edge of the collection and another
\* edge is still linked.
C2_Witness ==
    /\ lastOp.op = "removeEdge" /\ lastOp.found /\ lastOp.res = "ok"
    /\ \E v \in vertices : outgoing[v] # {}

\* C3: removeVertex(v) of a registered vertex with N incident edges (a
\* self-loop counted once) leaves N fewer edges and one vertex fewer: v is
\* gone, exactly the edges that touched v are gone, every other vertex and
\* every other edge stays as it was.
C3_RemoveVertexStep ==
    (lastOp'.op = "removeVertex" /\ lastOp'.a \in vertices) =>
        LET v == lastOp'.a
            touching == {e \in EdgeSet : edgeSrc[e] = v \/ edgeDst[e] = v}
        IN /\ lastOp'.res = "ok"
           /\ Len(edges') = Len(edges) - Cardinality(touching)
           /\ Cardinality(vertices') = Cardinality(vertices) - 1
           /\ vertices' = vertices \ {v}
           /\ edges' = SelectSeq(edges, LAMBDA e : e \notin touching)
           /\ \A w \in vertices' :
                /\ kind'[w] = kind[w]
                /\ incoming'[w] = incoming[w] \ touching
                /\ outgoing'[w] = outgoing[w] \ touching
           /\ \A e \in Range(edges') :
                edgeSrc'[e] = edgeSrc[e] /\ edgeDst'[e] = edgeDst[e]

C3_RemoveVertex == [][C3_RemoveVertexStep]_vars

\* C3 witness: removeVertex has removed a registered vertex together with two
\* incident edges while another vertex stays registered.
C3_Witness ==
    /\ lastOp.op = "removeVertex" /\ lastOp.found
    /\ lastOp.nEdges - Len(edges) = 2
    /\ vertices # {}

\* C4: addNewEdge whose source is a registered Action fails, and the edge
\* collection, the outgoing set of the source and the incoming set of the
\* destination (all incidence sets) are the same as before the call.
C4_ActionSourceStep ==
    (lastOp'.op = "addNewEdge" /\ lastOp'.a \in vertices
        /\ kind[lastOp'.a] = "Action") =>
        /\ lastOp'.res = "threw"
        /\ Len(edges') = Len(edges)
        /\ edges' = edges
        /\ outgoing' = outgoing
        /\ incoming' = incoming

C4_ActionSource == [][C4_ActionSourceStep]_vars

\* C4 witness: addNewEdge from a registered Action to a registered vertex has
\* thrown.
C4_Witness ==
    /\ lastOp.op = "addNewEdge" /\ lastOp.res = "threw" /\ lastOp.found
    /\ kind[lastOp.a] = "Action"

\* C5: addNewEdge fails whenever its source or its destination is not
\* registered in the graph, and the failed call changes neither the vertex
\* collection, nor the edge collection, nor any incidence set.
C5_UnregisteredStep ==
    (lastOp'.op = "addNewEdge"
        /\ (lastOp'.a \notin vertices \/ lastOp'.b \notin vertices)) =>
        /\ lastOp'.res = "threw"
        /\ UNCHANGED graphVars

C5_Unregistered == [][C5_UnregisteredStep]_vars

\* C5 witness: addNewEdge has thrown for a registered Team source and a
\* destination that was registered before and has been removed.
C5_Witness ==
    /\ lastOp.op = "addNewEdge" /\ lastOp.res = "threw" /\ ~lastOp.found
    /\ lastOp.a \in vertices /\ kind[lastOp.a] = "Team"
    /\ lastOp.b \notin vertices
    /\ edges # <<>>

\* C6: removeEdge(e) of an edge that is not in the edge collection raises no
\* error and changes nothing; removeEdge(e) of an edge of the collection
\* detaches it from the outgoing set of its source and the incoming set of
\* its destination and removes exactly e.
C6_RemoveEdgeStep ==
    (lastOp'.op = "removeEdge") =>
        LET e == lastOp'.a
        IN IF e \notin EdgeSet
           THEN /\ lastOp'.res = "ok"
                /\ ~crashed'
                /\ UNCHANGED graphVars
           ELSE /\ lastOp'.res = "ok"
                /\ edges' = SelectSeq(edges, LAMBDA x : x # e)
                /\ vertices' = vertices
                /\ outgoing' = [outgoing EXCEPT ![edgeSrc[e]] = @ \ {e}]
                /\ incoming' = [incoming EXCEPT ![edgeDst[e]] = @ \ {e}]

C6_RemoveEdge == [][C6_RemoveEdgeStep]_vars

\* C7: removeVertex(v) of a vertex that is not registered (a second
\* removeVertex of a removed vertex included) changes neither the vertex
\* collection, nor the edge collection, nor any incidence set.
C7_RemoveAbsentVertexStep ==
    (lastOp'.op = "removeVertex" /\ lastOp'.a \notin vertices) =>
        /\ lastOp'.res = "ok"
        /\ UNCHANGED graphVars

C7_RemoveAbsentVertex == [][C7_RemoveAbsentVertexStep]_vars

\* C7 witness: removeVertex was called on an address that is not registered
\* while the graph holds vertices and an edge.
C7_Witness ==
    /\ lastOp.op = "removeVertex" /\ ~lastOp.found /\ lastOp.res = "ok"
    /\ vertices # {} /\ edges # <<>>

\* C8: getRootVertices returns exactly the registered vertices whose incoming
\* set is empty at the time of the call, getVertices exactly the registered
\* vertices, and a list returned earlier is not changed by a later
\* addNewTeam, addNewAction, addNewEdge, removeEdge or removeVertex.
C8_SnapshotStep ==
    /\ lastOp'.op = "getRootVertices" =>
         /\ snap'.of = "roots"
         /\ \A v \in VAddrs :
              v \in snap'.list <=> (v \in vertices' /\ incoming'[v] = {})
    /\ lastOp'.op = "getVertices" =>
         /\ snap'.of = "vertices"
         /\ snap'.list = vertices'
    /\ lastOp'.op \notin {"getRootVertices", "getVertices"} => snap' = snap

C8_Snapshot == [][C8_SnapshotStep]_vars

\* C8 witness: a list returned by getRootVertices is held while the graph has
\* changed since: it names a vertex that is no longer registered, and a
\* registered vertex in it has an incoming edge by now.
C8_Witness ==
    /\ snap.of = "roots"
    /\ \E v \in snap.list : v \notin vertices
    /\ \E v \in snap.list : v \in vertices /\ incoming[v] # {}

\* Normalised bid of the edge at position i of the evaluated team
Bid(i) == EvaluateEdge(teamBids[i])
Evaluated == ranks # <<>>

\* C9: when two outgoing edges have equal bids the edge evaluated earlier is
\* ranked above the one evaluated later (a later edge takes a rank only with
\* a strictly greater bid); bids [5, 5, 3, 1] give rank 1 = first edge,
\* rank 2 = second edge, rank 3 = third edge.
C9_EarlierWinsTies ==
    Evaluated =>
        /\ \A i \in 1..Len(teamBids) : \A j \in 1..Len(teamBids) :
             (i < j /\ Bid(i) = Bid(j)) =>
                \A r \in 1..3 : ranks[r] = j =>
                    \E q \in 1..3 : q < r /\ ranks[q] = i
        /\ teamBids = <<5, 5, 3, 1>> => ranks = <<1, 2, 3>>

\* C10: for a team with at least three outgoing edges the three returned
\* edges are pairwise distinct and are the three highest bidders: no edge
\* outside the three has a bid strictly greater than a returned edge's bid.
C10_TopThreeDistinct ==
    (Evaluated /\ Len(teamBids) >= 3) =>
        /\ ranks[1] # ranks[2] /\ ranks[1] # ranks[3] /\ ranks[2] # ranks[3]
        /\ \A i \in 1..Len(teamBids) :
             i \notin Range(ranks) =>
                \A r \in 1..3 : Bid(i) <= Bid(ranks[r])

\* C11: for a team with one or two outgoing edges evaluateTeam returns three
\* entries, each one of the team's outgoing edges, and the missing slots
\* repeat the best edge: the rank-3 entry is the rank-1 entry.
C11_FewEdgesFillWithBest ==
    (Evaluated /\ Len(teamBids) <= 2) =>
        /\ Len(ranks) = 3
        /\ \A r \in 1..3 : ranks[r] \in 1..Len(teamBids)
        /\ ranks[3] = ranks[1]

\* C14: the rank-1 edge returned by evaluateTeam has a bid greater than or
\* equal to the bid of every outgoing edge of the team (the edge a top-1
\* selection follows).
C14_BestIsMaximum ==
    Evaluated => \A i \in 1..Len(teamBids) : Bid(ranks[1]) >= Bid(i)

\* C14 witness: a team of four edges was evaluated, the best edge is the third
\* one and it outbids the first and the last edge.
C14_Witness ==
    /\ Evaluated /\ Len(teamBids) = 4
    /\ ranks[1] = 3
    /\ Bid(1) < Bid(3) /\ Bid(4) < Bid(3)

\* Number of executions of the program of the edge at position i
NbExecutions(i) == Cardinality({k \in 1..Len(executed) : executed[k] = i})

\* C15: during one evaluateTeam call the program of each outgoing edge is
\* executed exactly once: n edges cause n executions and at most n archive
\* recordings.
C15_OneExecutionPerEdge ==
    Evaluated =>
        /\ \A i \in 1..Len(teamBids) : NbExecutions(i) = 1
        /\ Len(executed) = Len(teamBids)
        /\ Len(recorded) <= Len(teamBids)

\* C16: with an archive set, every execution of an edge's program is
\* forwarded to addRecording with the program and the NaN-filtered bid,
\* whether or not the edge is ranked; with no archive no call is made, and
\* the returned edges are those of the evaluation either way.
C16_RecordingsForwarded ==
    Evaluated =>
        /\ archiveSet =>
             /\ Len(recorded) = Len(executed)
             /\ \A k \in 1..Len(recorded) :
                  /\ recorded[k].prog = executed[k]
                  /\ recorded[k].result = Bid(executed[k])
                  /\ recorded[k].result # NaN
             /\ \A i \in 1..Len(teamBids) :
                  \E k \in 1..Len(recorded) :
                     recorded[k] = [prog |-> i, result |-> Bid(i)]
        /\ ~archiveSet => recorded = <<>>
        /\ ranks = EvaluateTeamOp(teamBids).ranks

\* C16 witness: a team of four edges was evaluated with an archive set, one
\* of its programs returned NaN and one edge is not ranked.
C16_Witness ==
    /\ Evaluated /\ archiveSet /\ Len(teamBids) = 4
    /\ \E i \in 1..4 : teamBids[i] = NaN
    /\ \E i \in 1..4 : i \notin Range(ranks)
    /\ Len(recorded) > 0

\* C17 as stated: a NaN bid is treated as minus infinity and an edge with a
\* NaN bid is not among the three returned edges when the team has at least
\* three outgoing edges.
C17_NaNNeverRanked ==
    (Evaluated /\ Len(teamBids) >= 3) =>
        \A r \in 1..3 : teamBids[ranks[r]] # NaN

\* Edges whose bid is greater than minus infinity
FiniteEdges == {i \in 1..Len(teamBids) : Bid(i) > NegInf}

\* C17 amended: a NaN bid is treated as minus infinity and an edge with a NaN
\* bid is not among the three returned edges when at least three edges of
\* the team have a bid greater than minus infinity.
C17_NaNNotRankedAmongFinite ==
    Evaluated =>
        /\ \A i \in 1..Len(teamBids) :
             teamBids[i] = NaN => Bid(i) = NegInf
        /\ Cardinality(FiniteEdges) >= 3 =>
             \A r \in 1..3 : teamBids[ranks[r]] # NaN

\* C17 witness: a team whose first program returned NaN and whose three other
\* edges have finite bids was evaluated.
C17_Witness ==
    /\ Evaluated /\ Len(teamBids) = 4
    /\ teamBids[1] = NaN
    /\ Cardinality(FiniteEdges) = 3

\* The running traversal returned or broke
ExecEnded == exPc \notin {"idle", "run", "evaluated"}

\* C12: each evaluated team adds exactly three entries to the sequence of
\* executeFromRoot, in this order: destination of the rank-3 edge, of the
\* rank-2 edge, of the rank-1 edge; the traversal goes on from the rank-1
\* destination only; the sequence starts with the root and returning adds
\* nothing.
C12_PushStep ==
    /\ ExecAdvance =>
         /\ Len(exVisited') = Len(exVisited) + 3
         /\ SubSeq(exVisited', 1, Len(exVisited)) = exVisited
         /\ exVisited'[Len(exVisited) + 1] = exDsts[ranks[3]]
         /\ exVisited'[Len(exVisited) + 2] = exDsts[ranks[2]]
         /\ exVisited'[Len(exVisited) + 3] = exDsts[ranks[1]]
         /\ exCur' = exDsts[ranks[1]]
    /\ ~ExecAdvance => exVisited' = exVisited
    /\ exPc = "evaluated" => ranks = EvaluateTeamOp(teamBids).ranks
    /\ Len(exVisited) >= 1

C12_VisitOrder == [][C12_PushStep]_vars

\* C12 witness: a traversal returned after two teams, and the rank-3 and the
\* rank-1 destinations of the first team differ.
C12_Witness ==
    /\ exPc = "done"
    /\ Len(exVisited) = 7
    /\ exVisited[2] # exVisited[4]

\* C13: on an acyclic graph executeFromRoot ends; it breaks only on a team
\* with no outgoing edge, and otherwise returns with an Action as the last
\* element of the sequence, which is the destination of the rank-1 edge of
\* the last team evaluated.
C13_LastStep ==
    /\ ExecAdvance => exVisited'[Len(exVisited')] = exDsts[ranks[1]]
    /\ exPc' = "done" =>
         /\ exCurKind' = "Action"
         /\ exVisited'[Len(exVisited')] = exCur'
         /\ exVisited' = exVisited

C13_Terminates ==
    /\ <>ExecEnded
    /\ [](ExecEnded /\ exPc # "done" =>
             exCurKind = "Team" /\ exDsts = <<>>)
    /\ [][C13_LastStep]_vars

\* C13 witness: a traversal from a root Team returned at an Action after
\* evaluating two teams.
C13_Witness ==
    /\ exPc = "done"
    /\ exCurKind = "Action"
    /\ Len(exVisited) = 7
    /\ exVisited[1] = 1
    /\ exVisited[7] = exCur

\* C18: when executeFromRoot evaluates a Team with no outgoing edge the call
\* fails with an EmptyTeam error.
C18_EmptyTeamError ==
    (exCurKind = "Team" /\ ExecEnded /\ exDsts = <<>>) => exPc = "EmptyTeam"

\* The recording passed to the last addRecording call
LastRecording == Recording(lastAdd.prog, lastAdd.data, lastAdd.result)

\* C19: eviction is FIFO: a recording accepted into a full archive evicts
\* exactly the oldest stored record and becomes the newest one, the others
\* keep their order and the size stays archiveSize; an accepted recording
\* evicts nothing while the archive is not full.
C19_FifoStep ==
    (AddRecording /\ lastAdd'.accepted) =>
        IF Len(recordings) = ArchiveSize
        THEN /\ lastAdd'.evicted
             /\ recordings' = Append(Tail(recordings), LastRecording')
             /\ Len(recordings') = ArchiveSize
        ELSE /\ ~lastAdd'.evicted
             /\ recordings' = Append(recordings, LastRecording')

C19_FifoEviction == [][C19_FifoStep]_vars

\* C19 witness: an accepted recording evicted the oldest record of a full
\* archive and is now its newest record.
C19_Witness ==
    /\ lastAdd.called /\ lastAdd.accepted /\ lastAdd.evicted
    /\ Len(recordings) = ArchiveSize
    /\ recordings[ArchiveSize] = LastRecording

\* C20: a recording that is a near-duplicate of a stored record of the same
\* program is rejected and the archive is unchanged, full or not; any other
\* recording, even when similar to a record of another program, is accepted.
C20_DedupStep ==
    AddRecording =>
        IF HasSimilar(recordings, lastAdd'.prog, lastAdd'.data)
        THEN /\ ~lastAdd'.accepted /\ ~lastAdd'.evicted
             /\ recordings' = recordings
        ELSE /\ lastAdd'.accepted
             /\ recordings'[Len(recordings')] = LastRecording'

C20_DedupGate == [][C20_DedupStep]_vars

\* C20 witness: a near-duplicate was rejected by a full archive that holds
\* two similar snapshots recorded for different programs.
C20_Witness ==
    /\ lastAdd.called /\ ~lastAdd.accepted
    /\ Len(recordings) = ArchiveSize
    /\ HasSimilar(recordings, lastAdd.prog, lastAdd.data)
    /\ \E j, k \in 1..Len(recordings) :
          /\ recordings[j].prog # recordings[k].prog
          /\ Similar(recordings[j].data, recordings[k].data)

\* ---------------------------------------------------- claims: archive bound

\* C21: after any sequence of addRecording and clear calls the archive holds
\* at most archiveSize records; addRecording on a full archive never fails:
\* the recording is stored, with an eviction, unless it is a near-duplicate
\* of a record of the same program; clear leaves the archive empty.
C21_BoundedStep ==
    /\ (AddRecording /\ Len(recordings) = ArchiveSize
            /\ ~HasSimilar(recordings, lastAdd'.prog, lastAdd'.data)) =>
          /\ lastAdd'.accepted /\ lastAdd'.evicted
          /\ Len(recordings') = ArchiveSize
          /\ recordings'[ArchiveSize] = LastRecording'
    /\ ClearArchive => Len(recordings') = 0

C21_Bounded ==
    /\ [](Len(recordings) <= ArchiveSize)
    /\ [][C21_BoundedStep]_vars

\* C21 witness: a full archive that holds records of two programs accepted
\* one more recording and still holds archiveSize records.
C21_Witness ==
    /\ lastAdd.called /\ lastAdd.accepted /\ lastAdd.evicted
    /\ Len(recordings) = ArchiveSize
    /\ recordings[1].prog # recordings[ArchiveSize].prog

\* ------------------------------------------------------- claims: decimation
\* The vertices that have an entry in the results
ScoredRoots == {results[i].root : i \in 1..Len(results)}

\* The vertices of rootsToKeep
Kept == Range(dec.keep)

\* The scored vertices that are no longer in the graph
RemovedScored == {v \in ScoredRoots : v \notin tpg.vertices}

Min(a, b) == IF a <= b THEN a ELSE b

\* C22: decimateWorstRoots never removes an Action: every Action of the graph
\* before the call, root or not, scored or not, kept or not, is an Action of
\* the graph after it.
C22_ActionsStayStep ==
    DecimateWorstRoots =>
        \A v \in tpg.vertices :
            tpg.kind[v] = "Action" =>
                v \in tpg'.vertices /\ tpg'.kind[v] = "Action"

C22_ActionsStay == [][C22_ActionsStayStep]_vars

\* C22 witness: a decimation removed a Team and left in the graph an unscored
\* root Action and a scored root Action, neither of them in rootsToKeep.
C22_Witness ==
    /\ dec.pc = "done"
    /\ ExtraRoot \in tpg.vertices /\ ExtraRoot \notin Kept
    /\ \E v \in ScoredRoots :
          tpg.kind[v] = "Action" /\ v \notin Kept /\ v \in tpg.vertices
    /\ RemovedScored # {}

\* C23 as stated: total is the number of entries of the results,
\* to_delete = floor(r * total), to_keep = total - to_delete, and when all
\* scored roots are Teams exactly to_keep of them remain and to_delete are
\* removed.
C23_TotalFromTableStep ==
    (/\ DecimateWorstRoots
     /\ dec'.pc = "done"
     /\ \A v \in ScoredRoots : tpg.kind[v] = "Team") =>
        /\ dec'.total = Len(results)
        /\ dec'.toDelete = (params.ratioNum * Len(results)) \div RatioDen
        /\ dec'.toKeep = Len(results) - dec'.toDelete
        /\ Cardinality(ScoredRoots \cap tpg'.vertices) = dec'.toKeep
        /\ Cardinality(ScoredRoots \ tpg'.vertices) = dec'.toDelete

C23_TotalFromTable == [][C23_TotalFromTableStep]_vars

\* C23 amended: total is the number of root vertices of the graph,
\* to_delete = floor(r * total), to_keep = total - to_delete, and when every
\* root of the graph is a scored Team exactly to_keep of them remain and
\* to_delete are removed.
C23_TotalFromGraphStep ==
    (DecimateWorstRoots /\ dec'.pc = "done") =>
        /\ dec'.total = Cardinality(GetRootVerticesOp(tpg))
        /\ dec'.toDelete = (params.ratioNum * dec'.total) \div RatioDen
        /\ RatioDen * dec'.toDelete <= params.ratioNum * dec'.total
        /\ RatioDen * (dec'.toDelete + 1) > params.ratioNum * dec'.total
        /\ dec'.toKeep = dec'.total - dec'.toDelete
        /\ (/\ GetRootVerticesOp(tpg) = ScoredRoots
            /\ \A v \in ScoredRoots : tpg.kind[v] = "Team") =>
               /\ Cardinality(ScoredRoots \cap tpg'.vertices) = dec'.toKeep
               /\ Cardinality(ScoredRoots \ tpg'.vertices) = dec'.toDelete

C23_TotalFromGraph == [][C23_TotalFromGraphStep]_vars

\* C23 witness: every root was a scored Team, and a decimation removed some
\* of them and kept the others.
C23_Witness ==
    /\ dec.pc = "done"
    /\ dec.total = Len(results)
    /\ dec.toDelete >= 1
    /\ Cardinality(RemovedScored) = dec.toDelete
    /\ Cardinality(ScoredRoots \cap tpg.vertices) = dec.toKeep
    /\ \A v \in ScoredRoots \cap tpg.vertices : tpg.kind[v] = "Team"

\* C24 as stated: a root already reserved by an earlier class is not reserved
\* twice and does not use up a slot of the current class, so every class
\* reserves floor(to_keep / nb_classes / 2) roots of its own as long as roots
\* not yet kept exist.
C24_SlotNotConsumed ==
    dec.pc = "done" =>
        /\ \A i, j \in 1..Len(dec.reserved) :
              dec.reserved[i] = dec.reserved[j] => i = j
        /\ Len(dec.reserved) =
              Min(Len(results), params.nbActions * dec.perClass)

\* The roots among the nb best of the results for class c (the later entry
\* first among equal scores)
BestOfClass(c, nb) ==
    {results[i].root : i \in
        {i \in 1..Len(results) :
            Cardinality({j \in 1..Len(results) :
                            ClassBefore(results, c, i, j)}) < nb}}

\* C24 amended: a root already reserved by an earlier class is not reserved
\* twice, but it uses up a slot of the current class: the roots reserved are
\* exactly the floor(to_keep / nb_classes / 2) best roots of each class, and
\* no further root is reserved in place of one that was already kept.
C24_SlotConsumed ==
    dec.pc = "done" =>
        /\ \A i, j \in 1..Len(dec.reserved) :
              dec.reserved[i] = dec.reserved[j] => i = j
        /\ Range(dec.reserved) =
              UNION {BestOfClass(c, dec.perClass) : c \in 1..params.nbActions}
        /\ dec.perClass = (dec.toKeep \div params.nbActions) \div 2

\* C24 witness: a decimation with reservation active in which a best root of
\* a class was already kept, so that fewer roots are reserved than there are
\* slots although roots not yet kept exist.
C24_Witness ==
    /\ dec.pc = "done"
    /\ dec.perClass >= 1
    /\ Len(dec.reserved) < params.nbActions * dec.perClass
    /\ Len(dec.reserved) < Len(results)

\* C25: when to_keep >= 2 * nb_classes, for every class a root with the
\* highest score for that class is kept and still in the graph after the
\* decimation.
C25_ClassBestKept ==
    (dec.pc = "done" /\ dec.toKeep >= 2 * params.nbActions) =>
        \A c \in 1..params.nbActions :
            \E i \in 1..Len(results) :
                /\ \A j \in 1..Len(results) :
                      results[i].cls[c] >= results[j].cls[c]
                /\ results[i].root \in Kept
                /\ results[i].root \in tpg.vertices

\* C25 witness: a decimation with to_keep >= 2 * nb_classes for two classes
\* kept a root whose general score is lower than that of a removed root.
C25_Witness ==
    /\ dec.pc = "done"
    /\ params.nbActions = 2
    /\ dec.toKeep >= 2 * params.nbActions
    /\ \E i, j \in 1..Len(results) :
          /\ results[i].root \in Kept /\ results[i].root \in tpg.vertices
          /\ results[j].root \notin tpg.vertices
          /\ GeneralScore(results[i]) < GeneralScore(results[j])

\* The roots the generic policy keeps: the to_keep last entries of the
\* results, which are ordered by general score
GenericKeep(tab, toKeep) ==
    {tab[i].root : i \in {i \in 1..Len(tab) : i > Len(tab) - toKeep}}

\* C26: when to_keep < 2 * nb_classes no root is reserved per class and the
\* roots kept are the to_keep roots of highest general score, the set the
\* generic policy keeps.
C26_GeneralScoreOnly ==
    (dec.pc = "done" /\ dec.toKeep < 2 * params.nbActions) =>
        /\ dec.perClass = 0
        /\ dec.reserved = <<>>
        /\ Kept = GenericKeep(results, dec.toKeep)
        /\ Cardinality(Kept) = Min(dec.toKeep, Len(results))
        /\ \A i, j \in 1..Len(results) :
              (results[i].root \in Kept /\ results[j].root \notin Kept) =>
                  GeneralScore(results[i]) >= GeneralScore(results[j])

\* C26 witness: a decimation for two classes with 1 <= to_keep < 4 removed a
\* scored Team whose score for a class is higher than that of a kept root.
C26_Witness ==
    /\ dec.pc = "done"
    /\ params.nbActions = 2
    /\ dec.toKeep >= 1 /\ dec.toKeep < 2 * params.nbActions
    /\ \E i, j \in 1..Len(results) :
          /\ results[i].root \in Kept
          /\ results[j].root \notin tpg.vertices
          /\ results[j].cls[1] > results[i].cls[1]

\* C27: decimateWorstRoots called with results that are not of the per-class
\* kind throws, and the graph is the same as before the call.
C27_WrongKindStep ==
    (/\ DecimateWorstRoots
     /\ results # <<>>
     /\ \A i \in 1..Len(results) : results[i].kind # "classification") =>
        /\ dec'.pc = "threw"
        /\ tpg' = tpg

C27_WrongKind == [][C27_WrongKindStep]_vars

\* C27 witness: a call with results of another kind threw on a graph with
\* several root Teams.
C27_Witness ==
    /\ dec.pc = "threw"
    /\ Len(results) >= 2
    /\ results[1].kind = "other"
    /\ \A v \in ScoredRoots : v \in tpg.vertices /\ tpg.kind[v] = "Team"

\* The edges of graph g that start or end at vertex v
IncidentEdges(g, v) ==
    {e \in Range(g.edges) : g.edgeSrc[e] = v \/ g.edgeDst[e] = v}

\* C28: after a decimation that returned, every root Team that is not in
\* rootsToKeep is gone from the graph with all its incident edges, and every
\* kept root is still in the graph with the same outgoing edges.
C28_RemovedAndKeptStep ==
    (DecimateWorstRoots /\ dec'.pc = "done") =>
        \A v \in GetRootVerticesOp(tpg) :
            /\ (tpg.kind[v] = "Team" /\ v \notin Range(dec'.keep)) =>
                  /\ v \notin tpg'.vertices
                  /\ IncidentEdges(tpg, v) \cap Range(tpg'.edges) = {}
                  /\ \A w \in tpg'.vertices :
                        /\ tpg'.incoming[w] \cap IncidentEdges(tpg, v) = {}
                        /\ tpg'.outgoing[w] \cap IncidentEdges(tpg, v) = {}
            /\ v \in Range(dec'.keep) =>
                  /\ v \in tpg'.vertices
                  /\ tpg'.kind[v] = tpg.kind[v]
                  /\ tpg'.outgoing[v] = tpg.outgoing[v]
                  /\ tpg.outgoing[v] \subseteq Range(tpg'.edges)
                  /\ \A e \in tpg.outgoing[v] :
                        tpg'.edgeSrc[e] = v /\ tpg'.edgeDst[e] = tpg.edgeDst[e]

C28_RemovedAndKept == [][C28_RemovedAndKeptStep]_vars

\* C28 witness: a decimation removed two root Teams and kept two others,
\* whose edges are still in the graph.
C28_Witness ==
    /\ dec.pc = "done"
    /\ Cardinality(RemovedScored) >= 2
    /\ Cardinality({v \in Kept : /\ v \in tpg.vertices
                                 /\ tpg.kind[v] = "Team"
                                 /\ tpg.outgoing[v] # {}
                                 /\ tpg.outgoing[v] \subseteq Range(tpg.edges)}) >= 2
    /\ Len(tpg.edges) = Cardinality(Kept \cap {v \in tpg.vertices : tpg.kind[v] = "Team"})

\* ------------------------------------------- claims: concurrent evaluation

\* C29: when several roots are evaluated concurrently, each by its own
\* engine, on a graph that no one mutates and with one archive insertion at a
\* time, then in every interleaving each traversal returns the vertex
\* sequence executeFromRoot returns when run alone, and the graph is unchanged.
C29_SameAsAlone ==
    /\ [](\A w \in DOMAIN engines :
            engines[w].pc = "done" =>
               engines[w].visitedVertices =
                  ExecuteFromRootOp(sharedGraph, engines[w].root,
                                    <<engines[w].root>>))
    /\ [][sharedGraph' = sharedGraph]_vars

\* C29 witness: two traversals from different roots have returned; the one
\* from the first Team went through the second Team, whose programs the other
\* engine ran as well, and the first Team ranked edges of different
\* destinations and programs.
C29_Witness ==
    /\ DOMAIN engines = Workers
    /\ \A w \in Workers : engines[w].pc = "done"
    /\ \E w, o \in Workers :
          /\ engines[w].root # engines[o].root
          /\ Len(engines[w].visitedVertices) > Len(engines[o].visitedVertices)
          /\ \E v \in ConcTeams : \E i, j \in 1..Len(sharedGraph[v]) :
                /\ v = engines[w].root
                /\ sharedGraph[v][i].dst # sharedGraph[v][j].dst
                /\ sharedGraph[v][i].program # sharedGraph[v][j].program
    /\ Len(recordings) > 1

\* ------------------------------------------------- claims: lines of a Program

\* C30: the line operations of a Program reject an index beyond bounds with
\* an out-of-range error and leave the number of lines unchanged:
\* addNewLine(pos) fails for pos > getNbLines() and succeeds, adding one line,
\* for every pos in 0..getNbLines(); getLine(i) and removeLine(i) fail for
\* i >= getNbLines(); a successful removeLine decreases getNbLines() by one.
C30_LineIndexStep ==
    /\ AddNewLine =>
          IF lineCall'.idx > Len(lines)
          THEN lineCall'.res = "out_of_range" /\ Len(lines') = Len(lines)
          ELSE lineCall'.res = "ok" /\ Len(lines') = Len(lines) + 1
    /\ GetLine =>
          /\ Len(lines') = Len(lines)
          /\ lineCall'.idx >= Len(lines) <=> lineCall'.res = "out_of_range"
    /\ RemoveLine =>
          IF lineCall'.idx >= Len(lines)
          THEN lineCall'.res = "out_of_range" /\ Len(lines') = Len(lines)
          ELSE lineCall'.res = "ok" /\ Len(lines') = Len(lines) - 1

C30_LineIndex == [][C30_LineIndexStep]_vars

\* C30 witness: removeLine was refused the index one past the last line of a
\* program that holds lines, after a line was removed from it.
C30_Witness ==
    /\ lineCall.op = "removeLine"
    /\ lineCall.res = "out_of_range"
    /\ lineCall.idx = Len(lines)
    /\ Len(lines) > 1
    /\ \E i \in 1..Len(lines) : lines[i] > Len(lines)

\* ------------------------------------------- claims: decimation, empty table

\* C31: decimateWorstRoots called with an empty score table throws an error
\* and leaves the graph unchanged.
C31_EmptyTableStep ==
    (DecimateWorstRoots /\ results = <<>>) =>
        (dec'.pc = "threw" /\ tpg' = tpg)

C31_EmptyTableThrows == [][C31_EmptyTableStep]_vars

\* ------------------------------------ claims: decimation, roots of the call

\* C33: decimateWorstRoots removes only vertices that were roots when the
\* call started: a Team that had an incoming edge at call time is still in
\* the graph after the call, and when the removals have deleted all its
\* incoming edges it is a root of the graph after the call.
C33_OnlyRootsOfCallStep ==
    DecimateWorstRoots =>
        \A v \in tpg.vertices :
            (tpg.kind[v] = "Team" /\ tpg.incoming[v] # {}) =>
                /\ v \in tpg'.vertices
                /\ tpg'.kind[v] = "Team"
                /\ tpg'.outgoing[v] = tpg.outgoing[v]
                /\ tpg'.incoming[v] = {} => v \in GetRootVerticesOp(tpg')

C33_OnlyRootsOfCall == [][C33_OnlyRootsOfCallStep]_vars

\* C33 witness: the call removed roots, among them every root that pointed to
\* the inner Team, which is now a root that no result scores.
C33_Witness ==
    /\ dec.pc = "done"
    /\ InnerTeam \in GetRootVerticesOp(tpg)
    /\ tpg.kind[InnerTeam] = "Team"
    /\ ~Present(dec.keep, InnerTeam)
    /\ \E v \in 1..Len(results) : v \in tpg.vertices

\* ------------------------------------------------------ claims: evaluateRoot

\* The environment has ended the episode or the budget of actions is spent
IterationOver ==
    evalRoot.terminal \/ evalRoot.doActions >= evalRoot.maxNbActionsPerEval

\* C32: in evaluateRoot each of the nbIterationsPerPolicyEvaluation
\* iterations resets the environment once and then performs at most
\* maxNbActionsPerEval actions; no action is performed once the environment
\* is terminal or the budget is reached, the iteration ends instead; and the
\* evaluation of a root ends, even when the environment is never terminal.
C32_InIteration ==
    /\ evalRoot.doActions <= evalRoot.maxNbActionsPerEval
    /\ evalRoot.i <= evalRoot.nbIterations
    /\ evalRoot.resets = evalRoot.i + (IF evalRoot.pc = "while" THEN 1 ELSE 0)
    /\ evalRoot.pc = "done" => evalRoot.resets = evalRoot.nbIterations

C32_StopStep ==
    /\ EvalRootDoAction => ~IterationOver
    /\ (evalRoot.pc = "while" /\ IterationOver) =>
          /\ evalRoot'.pc = "for"
          /\ evalRoot'.doActions = evalRoot.doActions
          /\ evalRoot'.i = evalRoot.i + 1

C32_BoundedEvaluation ==
    /\ []C32_InIteration
    /\ [][C32_StopStep]_vars
    /\ <>(evalRoot.pc = "done")

\* C32 witness: the evaluation of a root has ended after several iterations,
\* the last of which spent its whole budget on an environment that was not
\* terminal.
C32_Witness ==
    /\ evalRoot.pc = "done"
    /\ evalRoot.nbIterations > 1
    /\ evalRoot.resets = evalRoot.nbIterations
    /\ ~evalRoot.terminal
    /\ evalRoot.maxNbActionsPerEval > 1
    /\ evalRoot.doActions = evalRoot.maxNbActionsPerEval

====
